---- MODULE Spec2Model ----
(***************************************************************************)
(* The patch engine of the crd-renderer (package patch): ApplyOperation,   *)
(* its path expansion, the RFC 6902 execution through the JSON-Patch       *)
(* library, mergeShallow, and ApplySpec.                                   *)
(*                                                                         *)
(* Strings are sequences of one-character strings, so that splitting,      *)
(* escaping and parsing are computed as the code computes them.            *)
(* A JSON value is a record tagged by its kind t:                          *)
(*   t = "null"                                                            *)
(*   t = "str"                   s = the text                              *)
(*   t = "bool"                  b = TRUE / FALSE                          *)
(*   t = "map"                   m = a function from keys (texts) to values*)
(*   t = "arr"                   a = a sequence of values                  *)
(* Go's nil interface value and JSON null are both Null.                   *)
(***************************************************************************)
EXTENDS Integers, Sequences, FiniteSets, TLC

\* ------------------------------------------------------------------ values

Null == [t |-> "null"]
Str(s) == [t |-> "str", s |-> s]
Bool(b) == [t |-> "bool", b |-> b]
Map(f) == [t |-> "map", m |-> f]
Arr(a) == [t |-> "arr", a |-> a]
EmptyMap == Map(<<>>)
EmptyArr == Arr(<<>>)

\* The one element of a set of one: The({e : v \in {x}}) is e with v standing
\* for the value of x, as after v := x.
The(S) == CHOOSE e \in S : TRUE

IsMap(x) == x.t = "map"
IsArr(x) == x.t = "arr"
IsNull(x) == x.t = "null"

Keys(m) == DOMAIN m.m
HasKey(m, k) == IsMap(m) /\ k \in DOMAIN m.m

\* m[k] of a Go map: the zero value (nil) when the key is absent.
Lookup(m, k) == IF k \in DOMAIN m.m THEN m.m[k] ELSE Null

\* m[k] = x
MapSet(m, k, x) == Map([j \in (DOMAIN m.m) \cup {k} |-> IF j = k THEN x ELSE m.m[j]])

\* delete(m, k)
MapDel(m, k) == Map([j \in (DOMAIN m.m) \ {k} |-> m.m[j]])

\* a[i] = x, with i a Go (0-based) index
ArrSet(a, i, x) == Arr([j \in 1..Len(a.a) |-> IF j = i + 1 THEN x ELSE a.a[j]])

\* ----------------------------------------------------------------- strings

NoErr == "nil"

Digits == {"0", "1", "2", "3", "4", "5", "6", "7", "8", "9"}

DigitVal(c) ==
  CASE c = "0" -> 0 [] c = "1" -> 1 [] c = "2" -> 2 [] c = "3" -> 3 [] c = "4" -> 4
    [] c = "5" -> 5 [] c = "6" -> 6 [] c = "7" -> 7 [] c = "8" -> 8 [] c = "9" -> 9

DigitChar(d) == <<"0", "1", "2", "3", "4", "5", "6", "7", "8", "9">>[d + 1]

\* The characters of the model's texts in byte order (fmt prints map keys sorted).
ByteOrder ==
  <<" ", "\"", "'", "(", ")", "+", "-", ".", "/",
    "0", "1", "2", "3", "4", "5", "6", "7", "8", "9",
    ":", "<", "=", ">", "?", "@",
    "A", "B", "C", "D", "E", "F", "G", "H", "I", "J", "K", "L", "M",
    "N", "O", "P", "Q", "R", "S", "T", "U", "V", "W", "X", "Y", "Z",
    "[", "]", "_",
    "a", "b", "c", "d", "e", "f", "g", "h", "i", "j", "k", "l", "m",
    "n", "o", "p", "q", "r", "s", "t", "u", "v", "w", "x", "y", "z", "~">>

Ord(c) == CHOOSE i \in 1..Len(ByteOrder) : ByteOrder[i] = c

RECURSIVE StrLess(_, _)
StrLess(a, b) ==
  IF b = <<>> THEN FALSE
  ELSE IF a = <<>> THEN TRUE
  ELSE IF a[1] = b[1] THEN StrLess(Tail(a), Tail(b))
  ELSE Ord(a[1]) < Ord(b[1])

HasPrefix(s, p) == Len(s) >= Len(p) /\ SubSeq(s, 1, Len(p)) = p
HasSuffix(s, p) == Len(s) >= Len(p) /\ SubSeq(s, Len(s) - Len(p) + 1, Len(s)) = p
Drop(s, n) == SubSeq(s, n + 1, Len(s))
TrimPrefix(s, p) == IF HasPrefix(s, p) THEN Drop(s, Len(p)) ELSE s

\* strings.Index for a one-character needle, 1-based; 0 when absent (Go's -1).
RECURSIVE IndexFrom(_, _, _)
IndexFrom(s, c, i) ==
  IF i > Len(s) THEN 0 ELSE IF s[i] = c THEN i ELSE IndexFrom(s, c, i + 1)

Index(s, c) == IndexFrom(s, c, 1)

\* strings.Split(s, c) for a one-character separator.
RECURSIVE Split(_, _)
Split(s, c) ==
  LET i == Index(s, c) IN
  IF i = 0 THEN <<s>> ELSE <<SubSeq(s, 1, i - 1)>> \o Split(Drop(s, i), c)

\* strings.ReplaceAll(s, old, new), old not empty.
RECURSIVE ReplaceAll(_, _, _)
ReplaceAll(s, old, new) ==
  IF Len(s) < Len(old) THEN s
  ELSE IF HasPrefix(s, old) THEN new \o ReplaceAll(Drop(s, Len(old)), old, new)
  ELSE <<s[1]>> \o ReplaceAll(Tail(s), old, new)

IsSpace(c) == c \in {" ", "\t", "\n", "\r"}

RECURSIVE TrimLeft(_)
TrimLeft(s) == IF s # <<>> /\ IsSpace(s[1]) THEN TrimLeft(Tail(s)) ELSE s

RECURSIVE TrimRight(_)
TrimRight(s) ==
  IF s # <<>> /\ IsSpace(s[Len(s)]) THEN TrimRight(SubSeq(s, 1, Len(s) - 1)) ELSE s

TrimSpace(s) == TrimRight(TrimLeft(s))

RECURSIVE DecimalValue(_, _)
DecimalValue(s, acc) ==
  IF s = <<>> THEN acc ELSE DecimalValue(Tail(s), 10 * acc + DigitVal(s[1]))

\* strconv.Atoi: an optional sign and at least one decimal digit.
Atoi(s) ==
  LET signed == s # <<>> /\ s[1] \in {"+", "-"}
      body == IF signed THEN Tail(s) ELSE s
  IN IF body = <<>> \/ \E i \in 1..Len(body) : body[i] \notin Digits
       THEN [ok |-> FALSE, n |-> 0]
       ELSE [ok |-> TRUE,
             n |-> IF signed /\ s[1] = "-" THEN 0 - DecimalValue(body, 0)
                   ELSE DecimalValue(body, 0)]

\* strconv.Itoa for n >= 0 (the code only formats slice indices).
RECURSIVE Itoa(_)
Itoa(n) == IF n < 10 THEN <<DigitChar(n)>> ELSE Itoa(n \div 10) \o <<DigitChar(n % 10)>>

RECURSIVE Join(_, _)
Join(parts, sep) ==
  IF parts = <<>> THEN <<>>
  ELSE IF Len(parts) = 1 THEN parts[1]
  ELSE parts[1] \o sep \o Join(Tail(parts), sep)

\* The keys of a map in byte order.
RECURSIVE SortedKeys(_)
SortedKeys(ks) ==
  IF ks = {} THEN <<>>
  ELSE LET least == CHOOSE k \in ks : \A j \in ks \ {k} : StrLess(k, j)
       IN <<least>> \o SortedKeys(ks \ {least})

\* fmt.Sprintf("%v", x) of a plain tree.
RECURSIVE Sprintf(_)
Sprintf(x) ==
  CASE x.t = "null" -> <<"<", "n", "i", "l", ">">>
    [] x.t = "str" -> x.s
    [] x.t = "bool" -> IF x.b THEN <<"t", "r", "u", "e">> ELSE <<"f", "a", "l", "s", "e">>
    [] x.t = "arr" ->
         <<"[">> \o Join([i \in 1..Len(x.a) |-> Sprintf(x.a[i])], <<" ">>) \o <<"]">>
    [] x.t = "map" ->
         LET ks == SortedKeys(DOMAIN x.m) IN
         <<"m", "a", "p", "[">>
           \o Join([i \in 1..Len(ks) |-> ks[i] \o <<":">> \o Sprintf(x.m[ks[i]])], <<" ">>)
           \o <<"]">>

\* ---------------------------------------------------------- pointer helpers

\* escapePointerSegment: "~" first, then "/".
escapePointerSegment(seg) == ReplaceAll(ReplaceAll(seg, <<"~">>, <<"~", "0">>), <<"/">>, <<"~", "1">>)

\* unescapePointerSegment: "~1" first, then "~0".
unescapePointerSegment(seg) == ReplaceAll(ReplaceAll(seg, <<"~", "1">>, <<"/">>), <<"~", "0">>, <<"~">>)

\* splitRawPath: the leading slash is optional.
splitRawPath(path) ==
  IF path = <<>> THEN <<>>
  ELSE LET trimmed == TrimPrefix(path, <<"/">>) IN
       IF trimmed = <<>> THEN << <<>> >> ELSE Split(trimmed, "/")

\* splitPointer: the segments of a JSON Pointer, each unescaped except "-".
splitPointer(pointer) ==
  IF pointer = <<>> THEN <<>>
  ELSE LET trimmed == TrimPrefix(pointer, <<"/">>) IN
       IF trimmed = <<>> THEN << <<>> >>
       ELSE LET parts == Split(trimmed, "/") IN
            [i \in 1..Len(parts) |->
               IF parts[i] = <<"-">> THEN parts[i] ELSE unescapePointerSegment(parts[i])]

appendPointer(base, segment) == Append(base, segment)

\* buildJSONPointer: "/" before every segment, each escaped except "-".
RECURSIVE buildJSONPointer(_)
buildJSONPointer(segments) ==
  IF segments = <<>> THEN <<>>
  ELSE <<"/">>
         \o (IF segments[1] = <<"-">> THEN segments[1] ELSE escapePointerSegment(segments[1]))
         \o buildJSONPointer(Tail(segments))

\* ------------------------------------------------------------ array filters

FieldChars ==
  {"a", "b", "c", "d", "e", "f", "g", "h", "i", "j", "k", "l", "m",
   "n", "o", "p", "q", "r", "s", "t", "u", "v", "w", "x", "y", "z",
   "A", "B", "C", "D", "E", "F", "G", "H", "I", "J", "K", "L", "M",
   "N", "O", "P", "Q", "R", "S", "T", "U", "V", "W", "X", "Y", "Z",
   "_", ".", "-"} \cup Digits

Quotes == {"'", "\""}

RECURSIVE FieldRun(_)
FieldRun(s) == IF s # <<>> /\ s[1] \in FieldChars THEN 1 + FieldRun(Tail(s)) ELSE 0

\* filterExpr, ^@\.([A-Za-z0-9_.-]+)\s*==\s*['"](.*)['"]$ : the two groups of
\* a match. The field class holds no space, "=" or quote, so group 1 is the
\* longest run of class characters; group 2 lies between the quote that follows
\* "==" and the quote that ends the text.
filterExpr(text) ==
  LET none == [ok |-> FALSE, field |-> <<>>, expected |-> <<>>] IN
  IF ~HasPrefix(text, <<"@", ".">>) THEN none
  ELSE LET afterAt == Drop(text, 2)
           n == FieldRun(afterAt)
           afterField == TrimLeft(Drop(afterAt, n))
       IN IF n = 0 \/ ~HasPrefix(afterField, <<"=", "=">>) THEN none
          ELSE LET rest == TrimLeft(Drop(afterField, 2)) IN
               IF Len(rest) < 2 \/ rest[1] \notin Quotes \/ rest[Len(rest)] \notin Quotes
                 THEN none
                 ELSE [ok |-> TRUE, field |-> SubSeq(afterAt, 1, n),
                       expected |-> SubSeq(rest, 2, Len(rest) - 1)]

\* The walk of matchesFilter through the nested fields: the value found, or
\* found = FALSE when a step meets a non-object or a missing field.
RECURSIVE FieldWalk(_, _)
FieldWalk(current, fieldPath) ==
  IF fieldPath = <<>> THEN [found |-> TRUE, value |-> current]
  ELSE IF ~IsMap(current) THEN [found |-> FALSE, value |-> Null]
  ELSE IF fieldPath[1] \notin DOMAIN current.m THEN [found |-> FALSE, value |-> Null]
  ELSE FieldWalk(current.m[fieldPath[1]], Tail(fieldPath))

matchesFilter(item, expr) ==
  LET matches == filterExpr(TrimSpace(expr)) IN
  IF ~matches.ok THEN [err |-> "unsupported filter expression", match |-> FALSE]
  ELSE LET walk == FieldWalk(item, Split(matches.field, ".")) IN
       [err |-> NoErr,
        match |-> IF ~walk.found THEN FALSE
                  ELSE IF IsNull(walk.value) THEN matches.expected = <<>>
                  ELSE Sprintf(walk.value) = matches.expected]

\* ----------------------------------------------------------- path expansion
\* A pathState is [pointer |-> segments, value |-> the value there].
\* Every step returns [err, states].

\* The states of a step followed by those of the steps after it, which may
\* have failed.
Before(states, rest) ==
  IF rest.err # NoErr THEN rest ELSE [err |-> NoErr, states |-> states \o rest.states]

\* The matching elements of one state's array, from Go index idx on.
RECURSIVE FilterItems(_, _, _, _)
FilterItems(st, arr, expr, idx) ==
  IF idx >= Len(arr) THEN [err |-> NoErr, states |-> <<>>]
  ELSE The({IF m.err # NoErr THEN [err |-> m.err, states |-> <<>>]
            ELSE Before(IF m.match
                          THEN <<[pointer |-> appendPointer(st.pointer, Itoa(idx)),
                                  value |-> arr[idx + 1]]>>
                          ELSE <<>>,
                        FilterItems(st, arr, expr, idx + 1))
            : m \in {matchesFilter(arr[idx + 1], expr)}})

\* applyFilter that stops at the first element that matches.
applyFilterFirstMatch(states, expr) ==
  IF states = <<>> \/ ~IsArr(states[1].value) \/ Len(states[1].value.a) = 0
    THEN [err |-> NoErr, states |-> <<>>]
    ELSE The({[err |-> here.err,
               states |-> IF here.states = <<>> THEN <<>> ELSE <<here.states[1]>>]
              : here \in {FilterItems(states[1], states[1].value.a, expr, 0)}})

RECURSIVE applyFilter(_, _)
applyFilter(states, expr) ==
  IF states = <<>> THEN [err |-> NoErr, states |-> <<>>]
  ELSE The({IF here.err # NoErr THEN here
            ELSE Before(here.states, applyFilter(Tail(states), expr))
            : here \in {IF ~IsArr(states[1].value) \/ Len(states[1].value.a) = 0
                          THEN [err |-> NoErr, states |-> <<>>]
                          ELSE FilterItems(states[1], states[1].value.a, expr, 0)}})

RECURSIVE applyKeyLoop(_, _)
applyKeyLoop(states, key) ==
  IF states = <<>> THEN [err |-> NoErr, states |-> <<>>]
  ELSE IF ~(IsMap(states[1].value) \/ IsNull(states[1].value))
    THEN [err |-> "path segment expects an object", states |-> <<>>]
  ELSE Before(<<[pointer |-> appendPointer(states[1].pointer, key),
                 value |-> IF IsMap(states[1].value) THEN Lookup(states[1].value, key)
                           ELSE Null]>>,
              applyKeyLoop(Tail(states), key))

\* applyKey that drops the states whose key leads to nothing.
applyKeyDropsMissing(states, key) ==
  IF key = <<>> THEN [err |-> NoErr, states |-> states]
  ELSE The({[err |-> r.err, states |-> SelectSeq(r.states, LAMBDA st : ~IsNull(st.value))]
            : r \in {applyKeyLoop(states, key)}})

applyKey(states, key) ==
  IF key = <<>> THEN [err |-> NoErr, states |-> states] ELSE applyKeyLoop(states, key)

RECURSIVE applyIndex(_, _)
applyIndex(states, index) ==
  IF states = <<>> THEN [err |-> NoErr, states |-> <<>>]
  ELSE IF ~IsArr(states[1].value)
    THEN [err |-> "path segment expects an array", states |-> <<>>]
  ELSE IF index < 0 \/ index >= Len(states[1].value.a)
    THEN [err |-> "array index out of bounds", states |-> <<>>]
  ELSE Before(<<[pointer |-> appendPointer(states[1].pointer, Itoa(index)),
                 value |-> states[1].value.a[index + 1]]>>,
              applyIndex(Tail(states), index))

applyDash(states) ==
  [i \in 1..Len(states) |->
     [pointer |-> appendPointer(states[i].pointer, <<"-">>), value |-> Null]]

\* The loop of applySegment over what remains of the segment.
RECURSIVE SegmentLoop(_, _)
SegmentLoop(current, remaining) ==
  IF remaining = <<>> THEN [err |-> NoErr, states |-> current]
  ELSE IF remaining[1] = "[" THEN
    LET closeIdx == Index(remaining, "]")
        content == SubSeq(remaining, 2, closeIdx - 1)
    IN IF closeIdx = 0 THEN [err |-> "unclosed bracket segment", states |-> <<>>]
       ELSE The({IF step.err # NoErr THEN step
                 ELSE SegmentLoop(step.states, Drop(remaining, closeIdx))
                 : step \in {IF HasPrefix(content, <<"?", "(">>) /\ HasSuffix(content, <<")">>)
                               THEN applyFilter(current, SubSeq(content, 3, Len(content) - 1))
                             ELSE IF content = <<"-">>
                               THEN [err |-> NoErr, states |-> applyDash(current)]
                             ELSE IF ~Atoi(content).ok
                               THEN [err |-> "unsupported array index", states |-> <<>>]
                             ELSE applyIndex(current, Atoi(content).n)}})
  ELSE
    LET nextBracket == Index(remaining, "[")
        token == IF nextBracket = 0 THEN remaining ELSE SubSeq(remaining, 1, nextBracket - 1)
        after == IF nextBracket = 0 THEN <<>> ELSE Drop(remaining, nextBracket - 1)
    IN The({IF step.err # NoErr THEN step ELSE SegmentLoop(step.states, after)
            : step \in {IF Atoi(token).ok THEN applyIndex(current, Atoi(token).n)
                        ELSE applyKey(current, token)}})

applySegment(state, segment) == SegmentLoop(<<state>>, segment)

\* for _, st := range states { applySegment(st, segment) }
RECURSIVE ExpandStates(_, _)
ExpandStates(states, segment) ==
  IF states = <<>> THEN [err |-> NoErr, states |-> <<>>]
  ELSE The({IF expanded.err # NoErr THEN expanded
            ELSE Before(expanded.states, ExpandStates(Tail(states), segment))
            : expanded \in {applySegment(states[1], segment)}})

\* for _, segment := range segments { ... }
RECURSIVE ExpandSegments(_, _)
ExpandSegments(states, segments) ==
  IF segments = <<>> THEN [err |-> NoErr, states |-> states]
  ELSE IF segments[1] = <<"-">> THEN ExpandSegments(applyDash(states), Tail(segments))
  ELSE The({IF next.err # NoErr \/ Len(next.states) = 0 THEN next
            ELSE ExpandSegments(next.states, Tail(segments))
            : next \in {ExpandStates(states, segments[1])}})

\* expandPaths: [err, pointers].
expandPaths(root, rawPath) ==
  IF rawPath = <<>> THEN [err |-> NoErr, pointers |-> << <<>> >>]
  ELSE The({IF r.err # NoErr THEN [err |-> r.err, pointers |-> <<>>]
            ELSE [err |-> NoErr,
                  pointers |-> [i \in 1..Len(r.states) |->
                                  buildJSONPointer(r.states[i].pointer)]]
            : r \in {ExpandSegments(<<[pointer |-> <<>>, value |-> root]>>,
                                    splitRawPath(rawPath))}})

\* ------------------------------------------------- the JSON-Patch library
\* patch.Apply of github.com/evanphx/json-patch/v5 on a one-operation patch
\* with the default options (negative indices supported, no path creation).
\* Every step returns [err, doc]: the document as the step leaves it.

\* decodePatchKey: one pass, "~1" to "/" and "~0" to "~".
RECURSIVE decodePatchKey(_)
decodePatchKey(k) ==
  IF k = <<>> THEN <<>>
  ELSE IF HasPrefix(k, <<"~", "1">>) THEN <<"/">> \o decodePatchKey(Drop(k, 2))
  ELSE IF HasPrefix(k, <<"~", "0">>) THEN <<"~">> \o decodePatchKey(Drop(k, 2))
  ELSE <<k[1]>> \o decodePatchKey(Tail(k))

\* The index an array key stands for: [ok, idx]; size is the length the index
\* is checked against.
ArrayIndex(key, size) ==
  LET a == Atoi(key) IN
  IF ~a.ok THEN [ok |-> FALSE, idx |-> 0]
  ELSE IF a.n >= size THEN [ok |-> FALSE, idx |-> 0]
  ELSE IF a.n < 0 THEN
    (IF a.n < 0 - size THEN [ok |-> FALSE, idx |-> 0] ELSE [ok |-> TRUE, idx |-> a.n + size])
  ELSE [ok |-> TRUE, idx |-> a.n]

\* container.get: [ok, value]; ok is FALSE for a missing key or a bad index.
containerGet(con, key) ==
  IF IsMap(con) THEN
    (IF key \in DOMAIN con.m THEN [ok |-> TRUE, value |-> con.m[key]]
     ELSE [ok |-> FALSE, value |-> Null])
  ELSE LET i == ArrayIndex(key, Len(con.a)) IN
       IF i.ok THEN [ok |-> TRUE, value |-> con.a[i.idx + 1]]
       ELSE [ok |-> FALSE, value |-> Null]

\* container.add
containerAdd(con, key, val) ==
  IF IsMap(con) THEN [err |-> NoErr, doc |-> MapSet(con, key, val)]
  ELSE IF key = <<"-">> THEN [err |-> NoErr, doc |-> Arr(Append(con.a, val))]
  ELSE LET i == ArrayIndex(key, Len(con.a) + 1) IN
       IF ~i.ok THEN [err |-> "invalid array index", doc |-> con]
       ELSE [err |-> NoErr,
             doc |-> Arr(SubSeq(con.a, 1, i.idx) \o <<val>> \o SubSeq(con.a, i.idx + 1, Len(con.a)))]

\* container.set
containerSet(con, key, val) ==
  IF IsMap(con) THEN [err |-> NoErr, doc |-> MapSet(con, key, val)]
  ELSE LET i == ArrayIndex(key, Len(con.a)) IN
       IF ~i.ok THEN [err |-> "invalid array index", doc |-> con]
       ELSE [err |-> NoErr, doc |-> ArrSet(con, i.idx, val)]

\* container.remove
containerRemove(con, key) ==
  IF IsMap(con) THEN
    (IF key \in DOMAIN con.m THEN [err |-> NoErr, doc |-> MapDel(con, key)]
     ELSE [err |-> "missing key", doc |-> con])
  ELSE LET i == ArrayIndex(key, Len(con.a)) IN
       IF ~i.ok THEN [err |-> "invalid array index", doc |-> con]
       ELSE [err |-> NoErr,
             doc |-> Arr(SubSeq(con.a, 1, i.idx) \o SubSeq(con.a, i.idx + 2, Len(con.a)))]

\* Patch.add, Patch.replace, Patch.remove, Patch.test on the container found.
operationOn(con, op, key, val) ==
  CASE op = "add" -> containerAdd(con, key, val)
    [] op = "replace" ->
         IF ~containerGet(con, key).ok THEN [err |-> "missing key", doc |-> con]
         ELSE containerSet(con, key, val)
    [] op = "remove" -> containerRemove(con, key)
    [] op = "test" ->
         LET got == containerGet(con, key).value IN
         IF IsArr(con) /\ ~containerGet(con, key).ok
           THEN [err |-> "invalid array index", doc |-> con]
         ELSE IF IsNull(got) \/ IsNull(val)
           THEN [err |-> IF IsNull(got) /\ IsNull(val) THEN NoErr ELSE "test failed",
                 doc |-> con]
           ELSE [err |-> IF got = val THEN NoErr ELSE "test failed", doc |-> con]

\* findObject and the operation on the container it finds: parts are the
\* pointer's segments before the last, key the last one, both still encoded.
RECURSIVE findObjectAndApply(_, _, _, _, _)
findObjectAndApply(doc, parts, key, op, val) ==
  IF parts = <<>> THEN operationOn(doc, op, decodePatchKey(key), val)
  ELSE The({IF ~next.ok \/ ~(IsMap(next.value) \/ IsArr(next.value))
              THEN [err |-> "missing path", doc |-> doc]
              ELSE The({[err |-> r.err,
                         doc |-> IF r.err # NoErr THEN doc
                                 ELSE IF IsMap(doc) THEN MapSet(doc, part, r.doc)
                                 ELSE ArrSet(doc, ArrayIndex(part, Len(doc.a)).idx, r.doc)]
                        : r \in {findObjectAndApply(next.value, Tail(parts), key, op, val)}})
            : part \in {decodePatchKey(parts[1])},
              next \in {containerGet(doc, decodePatchKey(parts[1]))}})

\* Patch.Apply for one operation {op, path, value} without a "from" member.
\* move and copy read "from" first and fail without it. At the root pointer
\* add and replace install the value as the document, test compares the
\* document with it, and remove finds no key "".
patchApply(doc, op, pointer, val) ==
  LET split == Split(pointer, "/") IN
  CASE op \in {"move", "copy"} -> [err |-> "missing from", doc |-> doc]
    [] op \notin {"add", "replace", "remove", "test", "move", "copy"} ->
         [err |-> "unexpected kind", doc |-> doc]
    [] op \in {"add", "replace", "remove", "test"} /\ Len(split) < 2 ->
         (CASE op \in {"add", "replace"} ->
                 IF IsMap(val) \/ IsArr(val) THEN [err |-> NoErr, doc |-> val]
                 ELSE [err |-> "value must be object or array", doc |-> doc]
            [] op = "remove" -> [err |-> "missing key", doc |-> doc]
            [] op = "test" -> [err |-> IF doc = val THEN NoErr ELSE "test failed", doc |-> doc])
    [] OTHER ->
         findObjectAndApply(doc, SubSeq(split, 2, Len(split) - 1), split[Len(split)], op, val)

\* ----------------------------------------------------------- RFC 6902 steps

\* applyJSONPatch: marshal, apply, unmarshal into a map, repopulate target.
applyJSONPatch(target, op, pointer, value) ==
  The({IF patched.err # NoErr THEN [err |-> patched.err, doc |-> target]
        ELSE IF ~IsMap(patched.doc)
          THEN [err |-> "failed to unmarshal patched document", doc |-> target]
        ELSE [err |-> NoErr, doc |-> patched.doc]
        : patched \in {patchApply(target, op, pointer, IF op = "remove" THEN Null ELSE value)}})

\* The loop of ensureParentExists from segment i on (1-based), at node current.
\* The containers created before an error stay in the document.
RECURSIVE EnsureFrom(_, _, _)
EnsureFrom(current, segments, i) ==
  IF i > Len(segments) - 1 THEN [err |-> NoErr, doc |-> current]
  ELSE LET seg == segments[i] IN
    CASE IsMap(current) ->
           LET missing == seg \notin DOMAIN current.m \/ IsNull(current.m[seg])
               next == segments[i + 1]
           IN IF missing /\ next # <<"-">> /\ Atoi(next).ok
                THEN [err |-> "array index out of bounds", doc |-> current]
                ELSE The({[err |-> r.err, doc |-> MapSet(current, seg, r.doc)]
                          : r \in {EnsureFrom(IF ~missing THEN current.m[seg]
                                              ELSE IF next = <<"-">> THEN EmptyArr ELSE EmptyMap,
                                              segments, i + 1)}})
      [] IsArr(current) ->
           LET index == Atoi(seg) IN
           IF ~index.ok THEN [err |-> "expected array index", doc |-> current]
           ELSE IF index.n < 0 \/ index.n >= Len(current.a)
             THEN [err |-> "array index out of bounds", doc |-> current]
           ELSE The({[err |-> r.err, doc |-> ArrSet(current, index.n, r.doc)]
                     : r \in {EnsureFrom(current.a[index.n + 1], segments, i + 1)}})
      [] OTHER -> [err |-> "cannot traverse segment", doc |-> current]

\* ensureParentExists that makes nothing.
ensureParentExistsMakesNothing(root, pointer) == [err |-> NoErr, doc |-> root]

ensureParentExists(root, pointer) ==
  LET segments == splitPointer(pointer) IN
  IF Len(segments) = 0 THEN [err |-> NoErr, doc |-> root] ELSE EnsureFrom(root, segments, 1)

\* for _, pointer := range resolved { ... } of applyRFC6902
RECURSIVE ApplyPointers(_, _, _, _)
ApplyPointers(target, op, resolved, value) ==
  IF resolved = <<>> THEN [err |-> NoErr, doc |-> target]
  ELSE The({IF ensured.err # NoErr THEN ensured
            ELSE The({IF applied.err # NoErr THEN applied
                      ELSE ApplyPointers(applied.doc, op, Tail(resolved), value)
                      : applied \in {applyJSONPatch(ensured.doc, op, resolved[1], value)}})
            : ensured \in {IF op = "add" THEN ensureParentExists(target, resolved[1])
                           ELSE [err |-> NoErr, doc |-> target]}})

\* applyRFC6902 that reports a path without locations.
applyRFC6902NoMatchFails(target, op, rawPath, value) ==
  The({IF resolved.err # NoErr THEN [err |-> resolved.err, doc |-> target]
        ELSE IF Len(resolved.pointers) = 0 THEN [err |-> "path matched nothing", doc |-> target]
        ELSE ApplyPointers(target, op, resolved.pointers, value)
        : resolved \in {expandPaths(target, rawPath)}})

applyRFC6902(target, op, rawPath, value) ==
  The({IF resolved.err # NoErr THEN [err |-> resolved.err, doc |-> target]
        ELSE IF Len(resolved.pointers) = 0 THEN [err |-> NoErr, doc |-> target]
        ELSE ApplyPointers(target, op, resolved.pointers, value)
        : resolved \in {expandPaths(target, rawPath)}})

\* ------------------------------------------------------------ mergeShallow

\* cloneValue, deepCopyMap, deepCopySlice: the copy is rebuilt node by node.
RECURSIVE cloneValue(_)
cloneValue(value) ==
  CASE IsMap(value) -> Map([k \in DOMAIN value.m |-> cloneValue(value.m[k])])
    [] IsArr(value) -> Arr([i \in 1..Len(value.a) |-> cloneValue(value.a[i])])
    [] OTHER -> value

deepCopyMap(src) == cloneValue(src)

\* mergeShallowInto: for k, v := range overlay { target[k] = cloneValue(v) }
mergeShallowInto(target, overlay) ==
  Map([k \in (DOMAIN target.m) \cup (DOMAIN overlay.m) |->
         IF k \in DOMAIN overlay.m THEN cloneValue(overlay.m[k]) ELSE target.m[k]])

\* determineNextContainerType; index is the Go index into segments.
determineNextContainerType(segments, index, last) ==
  LET nextSeg == IF index + 1 < Len(segments) THEN segments[index + 2] ELSE last IN
  IF nextSeg = <<"-">> \/ Atoi(nextSeg).ok THEN EmptyArr ELSE EmptyMap

\* The node a list of (unescaped) segments leads to, through maps and arrays
\* that hold every step.
RECURSIVE ValueAt(_, _)
ValueAt(node, segs) ==
  IF segs = <<>> THEN node
  ELSE IF IsMap(node) THEN ValueAt(node.m[segs[1]], Tail(segs))
  ELSE ValueAt(node.a[Atoi(segs[1]).n + 1], Tail(segs))

\* The document with the node at segs replaced.
RECURSIVE UpdateAt(_, _, _)
UpdateAt(node, segs, new) ==
  IF segs = <<>> THEN new
  ELSE IF IsMap(node) THEN MapSet(node, segs[1], UpdateAt(node.m[segs[1]], Tail(segs), new))
  ELSE ArrSet(node, Atoi(segs[1]).n,
              UpdateAt(node.a[Atoi(segs[1]).n + 1], Tail(segs), new))

\* The loop of navigateToParent from parent segment i on (1-based): [err, doc],
\* doc holding the containers created on the way, also when an error follows.
RECURSIVE NavigateFrom(_, _, _, _, _)
NavigateFrom(current, parentSegs, i, last, create) ==
  IF i > Len(parentSegs) THEN [err |-> NoErr, doc |-> current]
  ELSE LET seg == parentSegs[i] IN
    CASE IsMap(current) ->
           LET missing == seg \notin DOMAIN current.m \/ IsNull(current.m[seg]) IN
           IF missing /\ ~create THEN [err |-> "missing path", doc |-> current]
           ELSE The({[err |-> r.err, doc |-> MapSet(current, seg, r.doc)]
                     : r \in {NavigateFrom(IF missing
                                             THEN determineNextContainerType(parentSegs, i - 1, last)
                                             ELSE current.m[seg],
                                           parentSegs, i + 1, last, create)}})
      [] IsArr(current) ->
           LET index == Atoi(seg) IN
           IF ~index.ok THEN [err |-> "expected array index", doc |-> current]
           ELSE IF index.n < 0 \/ index.n >= Len(current.a)
             THEN [err |-> "array index out of bounds", doc |-> current]
           ELSE The({[err |-> r.err, doc |-> ArrSet(current, index.n, r.doc)]
                     : r \in {NavigateFrom(current.a[index.n + 1], parentSegs, i + 1, last, create)}})
      [] OTHER -> [err |-> "cannot traverse segment", doc |-> current]

\* navigateToParent: [err, doc, parent, last]; parent is the list of segments
\* that leads to the parent container in doc.
navigateToParent(root, pointer, create) ==
  LET segments == splitPointer(pointer) IN
  IF Len(segments) = 0 THEN [err |-> NoErr, doc |-> root, parent |-> <<>>, last |-> <<>>]
  ELSE LET parentSegs == SubSeq(segments, 1, Len(segments) - 1)
           last == segments[Len(segments)]
       IN The({[err |-> r.err, doc |-> r.doc, parent |-> parentSegs, last |-> last]
               : r \in {NavigateFrom(root, parentSegs, 1, last, create)}})

\* The switch of mergeShallowAtPointer on the parent container that
\* navigateToParent has found.
MergeInto(nav, container, value) ==
  LET last == nav.last
      put(new) == [err |-> NoErr, doc |-> UpdateAt(nav.doc, nav.parent, new)]
  IN
    CASE IsMap(container) ->
           IF last \notin DOMAIN container.m \/ ~IsMap(container.m[last])
             THEN put(MapSet(container, last, deepCopyMap(value)))
             ELSE put(MapSet(container, last, mergeShallowInto(container.m[last], value)))
      [] IsArr(container) ->
           IF last = <<"-">>
             THEN [err |-> "mergeShallow operation cannot target append position", doc |-> nav.doc]
           ELSE IF ~Atoi(last).ok
             THEN [err |-> "invalid array index for mergeShallow", doc |-> nav.doc]
           ELSE IF Atoi(last).n < 0 \/ Atoi(last).n >= Len(container.a)
             THEN [err |-> "array index out of bounds", doc |-> nav.doc]
           ELSE LET existing == container.a[Atoi(last).n + 1] IN
                IF ~IsMap(existing)
                  THEN put(ArrSet(container, Atoi(last).n, deepCopyMap(value)))
                  ELSE put(ArrSet(container, Atoi(last).n, mergeShallowInto(existing, value)))
      [] OTHER -> [err |-> "mergeShallow parent must be object or array", doc |-> nav.doc]

mergeShallowAtPointer(root, pointer, value) ==
  The({IF nav.err # NoErr THEN [err |-> nav.err, doc |-> nav.doc]
        ELSE MergeInto(nav, ValueAt(nav.doc, nav.parent), value)
        : nav \in {navigateToParent(root, pointer, TRUE)}})

\* for _, pointer := range resolved { mergeShallowAtPointer(...) }
RECURSIVE MergePointers(_, _, _)
MergePointers(target, resolved, valueMap) ==
  IF resolved = <<>> THEN [err |-> NoErr, doc |-> target]
  ELSE The({IF merged.err # NoErr THEN merged
            ELSE MergePointers(merged.doc, Tail(resolved), valueMap)
            : merged \in {mergeShallowAtPointer(target, resolved[1], valueMap)}})

applyMergeShallow(target, rawPath, value) ==
  IF ~IsMap(value) THEN [err |-> "mergeShallow value must be an object", doc |-> target]
  ELSE The({IF resolved.err # NoErr THEN [err |-> resolved.err, doc |-> target]
            ELSE IF Len(resolved.pointers) = 0 THEN [err |-> NoErr, doc |-> target]
            ELSE MergePointers(target, resolved.pointers, value)
            : resolved \in {expandPaths(target, rawPath)}})

\* ---------------------------------------------------------- render callback
\* The RenderFunc the caller passes in. A literal renders to itself; an
\* expression Expr(name) is evaluated against inputs (a function from variable
\* names to values), as the render closures of the package's tests do. A
\* variable or a field that is not there is a missing-data error.

Expr(name) == [t |-> "expr", e |-> name]
IsExpr(x) == x.t = "expr"

ErrMissingData == "missing data"
ErrEvaluation == "evaluation failed"

\* fmt.Errorf("failed to evaluate ...: %w", err) at the four places that call
\* render, and errors.Is, which sees through the wrapping.
Wrap(site, e) ==
  CASE site = "path" /\ e = ErrMissingData -> "failed to evaluate patch path: missing data"
    [] site = "path" /\ e = ErrEvaluation -> "failed to evaluate patch path: evaluation failed"
    [] site = "value" /\ e = ErrMissingData -> "failed to evaluate patch value: missing data"
    [] site = "value" /\ e = ErrEvaluation -> "failed to evaluate patch value: evaluation failed"
    [] site = "where" /\ e = ErrMissingData -> "failed to evaluate target.where: missing data"
    [] site = "where" /\ e = ErrEvaluation -> "failed to evaluate target.where: evaluation failed"
    [] site = "forEach" /\ e = ErrMissingData ->
         "failed to evaluate patch forEach expression: missing data"
    [] site = "forEach" /\ e = ErrEvaluation ->
         "failed to evaluate patch forEach expression: evaluation failed"

ErrorsIs(e, target) ==
  e = target \/ \E site \in {"path", "value", "where", "forEach"} : e = Wrap(site, target)

kName == <<"n", "a", "m", "e">>
kKey == <<"k", "e", "y">>
kValue == <<"v", "a", "l", "u", "e">>
kKind == <<"k", "i", "n", "d">>
kApiVersion == <<"a", "p", "i", "V", "e", "r", "s", "i", "o", "n">>
kMetadata == <<"m", "e", "t", "a", "d", "a", "t", "a">>

\* inputs[name] = value ; delete(inputs, name)
Bind(inputs, name, value) ==
  [n \in (DOMAIN inputs) \cup {name} |-> IF n = name THEN value ELSE inputs[n]]
Unbind(inputs, name) == [n \in (DOMAIN inputs) \ {name} |-> inputs[n]]

Field(x, k) ==
  IF IsMap(x) /\ k \in DOMAIN x.m THEN [err |-> NoErr, value |-> x.m[k]]
  ELSE [err |-> ErrMissingData, value |-> Null]

Var(inputs, name) ==
  IF name \in DOMAIN inputs THEN [err |-> NoErr, value |-> inputs[name]]
  ELSE [err |-> ErrMissingData, value |-> Null]

Render(expr, inputs) ==
  IF ~IsExpr(expr) THEN [err |-> NoErr, value |-> expr]
  ELSE CASE expr.e = "missing" -> [err |-> ErrMissingData, value |-> Null]
         [] expr.e = "fail" -> [err |-> ErrEvaluation, value |-> Null]
         [] expr.e = "true" -> [err |-> NoErr, value |-> Bool(TRUE)]
         [] expr.e = "notBool" -> [err |-> NoErr, value |-> Str(<<"y", "e", "s">>)]
         [] expr.e = "addons" -> Var(inputs, "addons")
         [] expr.e = "matchName" ->
              \* resource.metadata.name == addon.name
              LET addon == Var(inputs, "addon")
                  resource == Var(inputs, "resource")
                  want == Field(addon.value, kName)
                  have == Field(Field(resource.value, kMetadata).value, kName)
              IN IF addon.err # NoErr \/ resource.err # NoErr \/ want.err # NoErr \/ have.err # NoErr
                   THEN [err |-> ErrMissingData, value |-> Null]
                   ELSE [err |-> NoErr, value |-> Bool(want.value = have.value)]
         [] expr.e = "annotationValue" ->
              \* {addon.key: addon.value}
              LET addon == Var(inputs, "addon")
                  key == Field(addon.value, kKey)
                  val == Field(addon.value, kValue)
              IN IF addon.err # NoErr \/ key.err # NoErr \/ val.err # NoErr \/ key.value.t # "str"
                   THEN [err |-> ErrMissingData, value |-> Null]
                   ELSE [err |-> NoErr, value |-> Map(key.value.s :> val.value)]
         [] OTHER -> [err |-> ErrEvaluation, value |-> Null]

\* ------------------------------------------------------------ ApplyOperation

opRemove == "remove"

\* strings.ToLower on the operation names of the model.
ToLower(op) ==
  CASE op = "mergeShallow" -> "mergeshallow"
    [] op = "Remove" -> "remove"
    [] op = "REMOVE" -> "remove"
    [] op = "Add" -> "add"
    [] OTHER -> op

\* An operation is [op, path, value]: path a literal Str or an expression.
\* ApplyOperation returns [err, doc].
ApplyOperation(target, operation, inputs) ==
  The({IF pathValue.err # NoErr THEN [err |-> Wrap("path", pathValue.err), doc |-> target]
       ELSE IF pathValue.value.t # "str"
         THEN [err |-> "patch path must evaluate to a string", doc |-> target]
       ELSE The({IF rendered.err # NoErr
                   THEN [err |-> Wrap("value", rendered.err), doc |-> target]
                 ELSE CASE op \in {"add", "replace", opRemove, "test", "move", "copy"} ->
                             applyRFC6902(target, op, pathValue.value.s, rendered.value)
                        [] op = "mergeshallow" ->
                             applyMergeShallow(target, pathValue.value.s, rendered.value)
                        [] OTHER -> [err |-> "unknown patch operation", doc |-> target]
                 : rendered \in {IF operation.op # opRemove THEN Render(operation.value, inputs)
                                 ELSE [err |-> NoErr, value |-> Null]},
                   op \in {ToLower(operation.op)}})
       : pathValue \in {Render(operation.path, inputs)}})

\* --------------------------------------------------------------- ApplySpec

\* splitAPIVersion: <<group, version>>.
splitAPIVersion(apiVersion) ==
  IF apiVersion = <<>> THEN << <<>>, <<>> >>
  ELSE LET i == Index(apiVersion, "/") IN
       IF i # 0 THEN <<SubSeq(apiVersion, 1, i - 1), Drop(apiVersion, i)>>
       ELSE << <<>>, apiVersion >>

\* The test of FindTargetResources without the name.
TargetMatchesIgnoresName(resource, target) ==
  LET kind == Lookup(resource, kKind)
      gv == Lookup(resource, kApiVersion)
      split == IF gv.t = "str" THEN splitAPIVersion(gv.s) ELSE << <<>>, <<>> >>
  IN /\ target.kind # <<>> => (kind.t = "str" /\ kind.s = target.kind)
     /\ target.group # <<>> => split[1] = target.group
     /\ target.version # <<>> => split[2] = target.version

\* The test of one resource in FindTargetResources.
TargetMatches(resource, target) ==
  LET kind == Lookup(resource, kKind)
      gv == Lookup(resource, kApiVersion)
      split == IF gv.t = "str" THEN splitAPIVersion(gv.s) ELSE << <<>>, <<>> >>
      metadata == Lookup(resource, kMetadata)
  IN /\ target.kind # <<>> => (kind.t = "str" /\ kind.s = target.kind)
     /\ target.group # <<>> => split[1] = target.group
     /\ target.version # <<>> => split[2] = target.version
     /\ target.name # <<>> => (IsMap(metadata) /\ Lookup(metadata, kName) = Str(target.name))

\* FindTargetResources: the matching resources, as their positions in the
\* list (the code keeps the maps themselves and patches them in place).
RECURSIVE FindFrom(_, _, _)
FindFrom(resources, target, i) ==
  IF i > Len(resources) THEN <<>>
  ELSE (IF TargetMatches(resources[i], target) THEN <<i>> ELSE <<>>)
         \o FindFrom(resources, target, i + 1)

\* FindTargetResources that returns the matches last first.
FindTargetResourcesBackwards(resources, target) ==
  The({[i \in 1..Len(found) |-> found[Len(found) + 1 - i]]
       : found \in {FindFrom(resources, target, 1)}})

FindTargetResources(resources, target) == FindFrom(resources, target, 1)

\* The isMissingData argument: "nil" (no predicate) or "isMissing"
\* (func(err error) bool { return errors.Is(err, errMissing) }).
IsMissingData(checker, err) == checker = "isMissing" /\ ErrorsIs(err, ErrMissingData)

\* Restore without the delete: a binding made by the call stays behind when
\* the name was not bound before.
RestoreKeepsBinding(inputs, name, had, previous) ==
  IF had THEN Bind(inputs, name, previous) ELSE inputs

\* if had { inputs[name] = previous } else { delete(inputs, name) }
Restore(inputs, name, had, previous) ==
  IF had THEN Bind(inputs, name, previous) ELSE Unbind(inputs, name)

\* matchTarget that never consults isMissingData: every error of the where
\* evaluation is returned.
matchTargetReturnsEveryError(where, target, baseInputs, checker) ==
  IF where = "" THEN [err |-> NoErr, match |-> TRUE, inputs |-> baseInputs]
  ELSE The({
          IF result.err # NoErr
            THEN [err |-> Wrap("where", result.err), match |-> FALSE, inputs |-> restored]
          ELSE IF result.value.t # "bool"
            THEN [err |-> "target.where must evaluate to a boolean", match |-> FALSE,
                  inputs |-> restored]
          ELSE [err |-> NoErr, match |-> result.value.b, inputs |-> restored]
          : result \in {Render(Expr(where), Bind(baseInputs, "resource", target))},
            restored \in {Restore(Bind(baseInputs, "resource", target), "resource",
                                  "resource" \in DOMAIN baseInputs,
                                  IF "resource" \in DOMAIN baseInputs
                                    THEN baseInputs["resource"] ELSE Null)}})

\* matchTarget that takes every candidate for a match.
matchTargetTakesAll(where, target, baseInputs, checker) ==
  [err |-> NoErr, match |-> TRUE, inputs |-> baseInputs]

\* matchTarget: [err, match, inputs].
matchTarget(where, target, baseInputs, checker) ==
  IF where = "" THEN [err |-> NoErr, match |-> TRUE, inputs |-> baseInputs]
  ELSE The({
          IF result.err # NoErr THEN
            (IF checker # "nil" /\ IsMissingData(checker, result.err)
               THEN [err |-> NoErr, match |-> FALSE, inputs |-> restored]
               ELSE [err |-> Wrap("where", result.err), match |-> FALSE, inputs |-> restored])
          ELSE IF result.value.t # "bool"
            THEN [err |-> "target.where must evaluate to a boolean", match |-> FALSE,
                  inputs |-> restored]
          ELSE [err |-> NoErr, match |-> result.value.b, inputs |-> restored]
          : result \in {Render(Expr(where), Bind(baseInputs, "resource", target))},
            restored \in {Restore(Bind(baseInputs, "resource", target), "resource",
                                  "resource" \in DOMAIN baseInputs,
                                  IF "resource" \in DOMAIN baseInputs
                                    THEN baseInputs["resource"] ELSE Null)}})

\* The calls of ApplyOperation a loop has made, in the order it made them,
\* are kept with what it returns, as log: the operations in OperationsLoop,
\* [target, op] with the position of the target in TargetsLoop, and
\* [item, target, op] with the forEach item in ItemsLoop.
Logged(entries, rest) == [rest EXCEPT !.log = entries \o @]
AtTarget(t, ops) == [k \in 1..Len(ops) |-> [target |-> t, op |-> ops[k]]]
ForItem(item, entries) ==
  [k \in 1..Len(entries) |-> [item |-> item, target |-> entries[k].target, op |-> entries[k].op]]

\* OperationsLoop that runs the remaining operations after one has failed
\* and returns the first error at the end.
RECURSIVE OperationsLoopGoesOn(_, _, _)
OperationsLoopGoesOn(target, operations, bound) ==
  IF operations = <<>> THEN [err |-> NoErr, doc |-> target, log |-> <<>>]
  ELSE The({The({[err |-> IF r.err # NoErr THEN r.err ELSE rest.err, doc |-> rest.doc,
                  log |-> <<operations[1]>> \o rest.log]
                 : rest \in {OperationsLoopGoesOn(r.doc, Tail(operations), bound)}})
            : r \in {ApplyOperation(target, operations[1], Bind(bound, "resource", target))}})

\* for _, op := range spec.Operations { ApplyOperation(target, op, baseInputs, render) }
\* with "resource" bound to the target map, which the operations patch in place.
RECURSIVE OperationsLoop(_, _, _)
OperationsLoop(target, operations, bound) ==
  IF operations = <<>> THEN [err |-> NoErr, doc |-> target, log |-> <<>>]
  ELSE The({IF r.err # NoErr THEN [err |-> r.err, doc |-> r.doc, log |-> <<operations[1]>>]
            ELSE Logged(<<operations[1]>>, OperationsLoop(r.doc, Tail(operations), bound))
            : r \in {ApplyOperation(target, operations[1], Bind(bound, "resource", target))}})

\* executeOperations: [err, doc, inputs, log].
executeOperations(target, operations, baseInputs) ==
  LET had == "resource" \in DOMAIN baseInputs
      previous == IF had THEN baseInputs["resource"] ELSE Null
  IN The({[err |-> r.err, doc |-> r.doc, log |-> r.log,
           inputs |-> Restore(Bind(baseInputs, "resource", r.doc), "resource", had, previous)]
          : r \in {OperationsLoop(target, operations, Bind(baseInputs, "resource", target))}})

\* for _, target := range targets { matchTarget; executeOperations }:
\* [err, resources, inputs, log].
RECURSIVE TargetsLoop(_, _, _, _, _)
TargetsLoop(resources, targets, spec, inputs, checker) ==
  IF targets = <<>> THEN [err |-> NoErr, resources |-> resources, inputs |-> inputs, log |-> <<>>]
  ELSE The({IF m.err # NoErr
              THEN [err |-> m.err, resources |-> resources, inputs |-> m.inputs, log |-> <<>>]
            ELSE IF ~m.match THEN TargetsLoop(resources, Tail(targets), spec, m.inputs, checker)
            ELSE The({IF e.err # NoErr
                        THEN [err |-> e.err, resources |-> [resources EXCEPT ![t] = e.doc],
                              inputs |-> e.inputs, log |-> AtTarget(t, e.log)]
                        ELSE Logged(AtTarget(t, e.log),
                                    TargetsLoop([resources EXCEPT ![t] = e.doc], Tail(targets),
                                                spec, e.inputs, checker))
                      : e \in {executeOperations(resources[t], spec.operations, m.inputs)}})
            : t \in {targets[1]},
              m \in {matchTarget(spec.target.where, resources[targets[1]], inputs, checker)}})

\* for _, item := range items { inputs[varName] = item; ... }; on an error of
\* the inner loop the variable is restored before the return.
RECURSIVE ItemsLoop(_, _, _, _, _, _, _, _, _)
ItemsLoop(resources, targets, spec, inputs, checker, items, varName, hadVar, previous) ==
  IF items = <<>>
    THEN [err |-> NoErr, resources |-> resources, log |-> <<>>,
          inputs |-> Restore(inputs, varName, hadVar, previous)]
  ELSE The({IF r.err # NoErr
              THEN [err |-> r.err, resources |-> r.resources, log |-> ForItem(items[1], r.log),
                    inputs |-> Restore(r.inputs, varName, hadVar, previous)]
              ELSE Logged(ForItem(items[1], r.log),
                          ItemsLoop(r.resources, targets, spec, r.inputs, checker, Tail(items),
                                    varName, hadVar, previous))
            : r \in {TargetsLoop(resources, targets, spec, Bind(inputs, varName, items[1]),
                                 checker)}})

\* A spec is [forEach, var, target, operations]; forEach and target.where are
\* expression names, "" when not set. ApplySpec returns [err, resources, inputs, log].
ApplySpec(resources, spec, inputs, checker) ==
  The({
  IF Len(spec.operations) = 0
    THEN [err |-> NoErr, resources |-> resources, inputs |-> inputs, log |-> <<>>]
  ELSE IF spec.forEach # "" THEN
    The({
    IF itemsRaw.err # NoErr
      THEN [err |-> Wrap("forEach", itemsRaw.err), resources |-> resources, inputs |-> inputs,
            log |-> <<>>]
    ELSE IF ~IsArr(itemsRaw.value)
      THEN [err |-> "forEach expression must evaluate to an array", resources |-> resources,
            inputs |-> inputs, log |-> <<>>]
    ELSE ItemsLoop(resources, targets, spec, inputs, checker, itemsRaw.value.a,
                   varName, varName \in DOMAIN inputs,
                   IF varName \in DOMAIN inputs THEN inputs[varName] ELSE Null)
    : itemsRaw \in {Render(Expr(spec.forEach), inputs)},
      varName \in {IF spec.var = "" THEN "item" ELSE spec.var}})
  ELSE TargetsLoop(resources, targets, spec, inputs, checker)
  : targets \in {FindTargetResources(resources, spec.target)}})

\* ------------------------------------------------------- maps and slices
\* map[string]any and []any are references: two holders of one map see each
\* other's writes. Here the containers live in a heap, a sequence of nodes
\* addressed by position; a node is a Map or Arr whose members are cells, a
\* cell being a scalar or a reference to a node.

Ref(n) == [t |-> "ref", n |-> n]
IsRef(cell) == cell.t = "ref"

\* The keys of a map node in the order the model visits them.
KeysOf(node) == SortedKeys(DOMAIN node.m)

\* The members of a container node, in order.
Cells(node) ==
  IF IsMap(node)
    THEN LET keys == KeysOf(node) IN [i \in 1..Len(keys) |-> node.m[keys[i]]]
    ELSE node.a

\* The node with its members replaced, in the same order.
WithCells(node, cells) ==
  IF IsMap(node)
    THEN LET keys == KeysOf(node)
         IN Map([k \in DOMAIN node.m |-> cells[CHOOSE i \in 1..Len(keys) : keys[i] = k]])
    ELSE Arr(cells)

\* The number of containers in a value.
RECURSIVE Size(_)
RECURSIVE SizeAll(_)
Size(value) == IF IsMap(value) \/ IsArr(value) THEN 1 + SizeAll(Cells(value)) ELSE 0
SizeAll(values) == IF values = <<>> THEN 0 ELSE Size(values[1]) + SizeAll(Tail(values))

\* The nodes of a value that is laid out after address base: the nodes of
\* its members, one member after the other, then its own node.
RECURSIVE Layout(_, _)
RECURSIVE LayoutAll(_, _)
Layout(value, base) ==
  IF IsMap(value) \/ IsArr(value)
    THEN LET members == Cells(value)
             at(i) == base + SizeAll(SubSeq(members, 1, i))
             cells == [i \in 1..Len(members) |->
                         IF IsMap(members[i]) \/ IsArr(members[i]) THEN Ref(at(i))
                         ELSE members[i]]
         IN LayoutAll(members, base) \o <<WithCells(value, cells)>>
    ELSE <<>>
LayoutAll(values, base) ==
  IF values = <<>> THEN <<>>
  ELSE Layout(values[1], base) \o LayoutAll(Tail(values), base + Size(values[1]))

\* A value laid out in the heap as the caller built it, every container a
\* node of its own: [heap, cell].
Store(heap, value) ==
  [heap |-> heap \o Layout(value, Len(heap)),
   cell |-> IF IsMap(value) \/ IsArr(value) THEN Ref(Len(heap) + Size(value)) ELSE value]

\* The value a cell stands for.
RECURSIVE Read(_, _)
Read(heap, cell) ==
  IF ~IsRef(cell) THEN cell
  ELSE LET node == heap[cell.n] IN
       IF IsMap(node) THEN Map([k \in DOMAIN node.m |-> Read(heap, node.m[k])])
       ELSE Arr([i \in 1..Len(node.a) |-> Read(heap, node.a[i])])

\* deepCopyMap and deepCopySlice: make(...) allocates the result, and every
\* member that is a map or a slice is copied in turn, so the result holds
\* the content of src in nodes of its own: [heap, cell].
deepCopyInHeap(heap, src) == Store(heap, Read(heap, src))

\* cloneValue that hands back the value it was given.
cloneValueShares(heap, value) == [heap |-> heap, cell |-> value]

\* cloneValue: [heap, cell].
cloneValueInHeap(heap, value) ==
  IF IsRef(value) THEN deepCopyInHeap(heap, value) ELSE [heap |-> heap, cell |-> value]

\* for k, v := range overlay { target[k] = cloneValue(v) }: the heap with the
\* target node written.
RECURSIVE OverlayKeys(_, _, _, _)
OverlayKeys(heap, target, overlay, keys) ==
  IF keys = <<>> THEN heap
  ELSE The({OverlayKeys([copy.heap EXCEPT ![target.n] = MapSet(copy.heap[target.n], keys[1], copy.cell)],
                        target, overlay, Tail(keys))
            : copy \in {cloneValueInHeap(heap, heap[overlay.n].m[keys[1]])}})

mergeShallowIntoInHeap(heap, target, overlay) ==
  OverlayKeys(heap, target, overlay, KeysOf(heap[overlay.n]))

\* The loop of navigateToParent on the heap, from parent segment i on
\* (1-based): [err, heap, parent], parent the cell of the container reached.
RECURSIVE NavigateInHeap(_, _, _, _, _, _)
NavigateInHeap(heap, current, parentSegs, i, last, create) ==
  IF i > Len(parentSegs) THEN [err |-> NoErr, heap |-> heap, parent |-> current]
  ELSE LET seg == parentSegs[i]
           fail(message) == [err |-> message, heap |-> heap, parent |-> Null]
       IN
    IF ~IsRef(current) THEN fail("cannot traverse segment")
    ELSE LET node == heap[current.n] IN
      IF IsMap(node) THEN
        LET missing == seg \notin DOMAIN node.m \/ IsNull(node.m[seg]) IN
        IF missing /\ ~create THEN fail("missing path")
        ELSE IF missing THEN
          LET next == Append(heap, determineNextContainerType(parentSegs, i - 1, last))
              child == Ref(Len(next))
              linked == [k \in (DOMAIN node.m) \cup {seg} |-> IF k = seg THEN child ELSE node.m[k]]
          IN NavigateInHeap([next EXCEPT ![current.n] = Map(linked)], child, parentSegs,
                            i + 1, last, create)
        ELSE NavigateInHeap(heap, node.m[seg], parentSegs, i + 1, last, create)
      ELSE
        LET index == Atoi(seg) IN
        IF ~index.ok THEN fail("expected array index")
        ELSE IF index.n < 0 \/ index.n >= Len(node.a) THEN fail("array index out of bounds")
        ELSE NavigateInHeap(heap, node.a[index.n + 1], parentSegs, i + 1, last, create)

\* navigateToParent: [err, heap, parent, last].
navigateToParentInHeap(heap, root, pointer, create) ==
  LET segments == splitPointer(pointer) IN
  IF Len(segments) = 0 THEN [err |-> NoErr, heap |-> heap, parent |-> root, last |-> <<>>]
  ELSE The({[err |-> r.err, heap |-> r.heap, parent |-> r.parent, last |-> segments[Len(segments)]]
            : r \in {NavigateInHeap(heap, root, SubSeq(segments, 1, Len(segments) - 1), 1,
                                    segments[Len(segments)], create)}})

\* container[at] = deepCopyMap(value), container the node at address parent
\* and at a key of a map or a 1-based position of a slice: [err, heap].
SetInHeap(heap, parent, at, value) ==
  The({[err |-> NoErr,
        heap |-> [copy.heap EXCEPT ![parent] =
                    IF IsMap(copy.heap[parent])
                      THEN MapSet(copy.heap[parent], at, copy.cell)
                      ELSE Arr([j \in 1..Len(copy.heap[parent].a) |->
                                  IF j = at THEN copy.cell ELSE copy.heap[parent].a[j]])]]
       : copy \in {deepCopyInHeap(heap, value)}})

\* The switch of mergeShallowAtPointer on the parent container that
\* navigateToParent has found.
MergeIntoInHeap(nav, container, value) ==
  LET last == nav.last
      set(at) == SetInHeap(nav.heap, nav.parent.n, at, value)
      merge(existing) ==
        [err |-> NoErr, heap |-> mergeShallowIntoInHeap(nav.heap, existing, value)]
      isMapCell(cell) == IsRef(cell) /\ IsMap(nav.heap[cell.n])
  IN
    IF IsMap(container) THEN
      (IF last \notin DOMAIN container.m \/ ~isMapCell(container.m[last])
         THEN set(last)
         ELSE merge(container.m[last]))
    ELSE IF last = <<"-">>
      THEN [err |-> "mergeShallow operation cannot target append position", heap |-> nav.heap]
    ELSE IF ~Atoi(last).ok
      THEN [err |-> "invalid array index for mergeShallow", heap |-> nav.heap]
    ELSE IF Atoi(last).n < 0 \/ Atoi(last).n >= Len(container.a)
      THEN [err |-> "array index out of bounds", heap |-> nav.heap]
    ELSE LET existing == container.a[Atoi(last).n + 1] IN
         IF ~isMapCell(existing) THEN set(Atoi(last).n + 1) ELSE merge(existing)

\* mergeShallowAtPointer: [err, heap]. The containers navigateToParent made
\* stay in the heap when an error follows.
mergeShallowAtPointerInHeap(heap, root, pointer, value) ==
  The({IF nav.err # NoErr THEN [err |-> nav.err, heap |-> nav.heap]
       ELSE IF ~IsRef(nav.parent)
         THEN [err |-> "mergeShallow parent must be object or array", heap |-> nav.heap]
       ELSE MergeIntoInHeap(nav, nav.heap[nav.parent.n], value)
       : nav \in {navigateToParentInHeap(heap, root, pointer, TRUE)}})

\* for _, pointer := range resolved { mergeShallowAtPointer(...) }
RECURSIVE MergePointersInHeap(_, _, _, _)
MergePointersInHeap(heap, target, resolved, valueMap) ==
  IF resolved = <<>> THEN [err |-> NoErr, heap |-> heap]
  ELSE The({IF merged.err # NoErr THEN merged
            ELSE MergePointersInHeap(merged.heap, target, Tail(resolved), valueMap)
            : merged \in {mergeShallowAtPointerInHeap(heap, target, resolved[1], valueMap)}})

\* applyMergeShallow on a resource and a value that live in the heap;
\* expandPaths only reads the resource.
applyMergeShallowInHeap(heap, target, rawPath, value) ==
  IF ~(IsRef(value) /\ IsMap(heap[value.n]))
    THEN [err |-> "mergeShallow value must be an object", heap |-> heap]
  ELSE The({IF resolved.err # NoErr THEN [err |-> resolved.err, heap |-> heap]
            ELSE IF Len(resolved.pointers) = 0 THEN [err |-> NoErr, heap |-> heap]
            ELSE MergePointersInHeap(heap, target, resolved.pointers, value)
            : resolved \in {expandPaths(Read(heap, target), rawPath)}})

\* -------------------------------------------------------------- deep merge
\* deepMerge of the context package, on trees. A nil map is Null.

\* deepCopyValue: the copy is rebuilt node by node.
RECURSIVE deepCopyValue(_)
deepCopyValue(v) ==
  CASE IsMap(v) -> Map([k \in DOMAIN v.m |-> deepCopyValue(v.m[k])])
    [] IsArr(v) -> Arr([i \in 1..Len(v.a) |-> deepCopyValue(v.a[i])])
    [] OTHER -> v

\* deepMerge without the merge of two mappings: the override's value always
\* replaces.
deepMergeReplaces(base, override) ==
  IF IsNull(override) THEN (IF IsNull(base) THEN EmptyMap ELSE base)
  ELSE Map([k \in (IF IsNull(base) THEN {} ELSE DOMAIN base.m) \cup DOMAIN override.m |->
              IF k \in DOMAIN override.m THEN deepCopyValue(override.m[k])
              ELSE deepCopyValue(base.m[k])])

RECURSIVE deepMerge(_, _)

\* for k, v := range override { ... } on the result so far.
RECURSIVE MergeOverrideKeys(_, _, _)
MergeOverrideKeys(result, override, keys) ==
  IF keys = <<>> THEN result
  ELSE MergeOverrideKeys(
         MapSet(result, keys[1],
                IF /\ keys[1] \in DOMAIN result.m
                   /\ IsMap(result.m[keys[1]])
                   /\ IsMap(override.m[keys[1]])
                  THEN deepMerge(result.m[keys[1]], override.m[keys[1]])
                  ELSE deepCopyValue(override.m[keys[1]])),
         override, Tail(keys))

\* for k, v := range base { result[k] = deepCopyValue(v) }
CopyBase(base) == Map([k \in DOMAIN base.m |-> deepCopyValue(base.m[k])])

deepMerge(base, override) ==
  IF IsNull(override) THEN (IF IsNull(base) THEN EmptyMap ELSE base)
  ELSE MergeOverrideKeys(CopyBase(IF IsNull(base) THEN EmptyMap ELSE base), override,
                         SortedKeys(DOMAIN override.m))

\* The same on maps and slices held in the heap: base and override are
\* cells, Null for a nil map; every step returns [heap, cell] or the heap.
deepCopyValueInHeap(heap, v) ==
  IF IsRef(v) THEN Store(heap, Read(heap, v)) ELSE [heap |-> heap, cell |-> v]

\* for k, v := range base { result[k] = deepCopyValue(v) }
RECURSIVE CopyBaseInHeap(_, _, _, _)
CopyBaseInHeap(heap, result, base, keys) ==
  IF keys = <<>> THEN heap
  ELSE The({CopyBaseInHeap([copy.heap EXCEPT ![result.n] =
                              MapSet(copy.heap[result.n], keys[1], copy.cell)],
                           result, base, Tail(keys))
            : copy \in {deepCopyValueInHeap(heap, heap[base.n].m[keys[1]])}})

\* if base == nil { base = make(map[string]any) }
BaseOrNew(heap, base) ==
  IF IsNull(base) THEN [heap |-> Append(heap, EmptyMap), cell |-> Ref(Len(heap) + 1)]
  ELSE [heap |-> heap, cell |-> base]

IsMapCell(heap, cell) == IsRef(cell) /\ IsMap(heap[cell.n])

RECURSIVE deepMergeInHeap(_, _, _)

\* for k, v := range override { ... } on the result node.
RECURSIVE MergeOverrideKeysInHeap(_, _, _, _)
MergeOverrideKeysInHeap(heap, result, override, keys) ==
  IF keys = <<>> THEN heap
  ELSE The({MergeOverrideKeysInHeap([set.heap EXCEPT ![result.n] =
                                       MapSet(set.heap[result.n], keys[1], set.cell)],
                                    result, override, Tail(keys))
            : set \in {IF /\ keys[1] \in DOMAIN heap[result.n].m
                          /\ IsMapCell(heap, heap[result.n].m[keys[1]])
                          /\ IsMapCell(heap, heap[override.n].m[keys[1]])
                         THEN deepMergeInHeap(heap, heap[result.n].m[keys[1]],
                                              heap[override.n].m[keys[1]])
                         ELSE deepCopyValueInHeap(heap, heap[override.n].m[keys[1]])}})

\* result := make(map[string]any) at the new address, filled from base and
\* then from override.
MergeIntoNew(heap, result, base, override) ==
  [heap |-> MergeOverrideKeysInHeap(CopyBaseInHeap(heap, result, base, KeysOf(heap[base.n])),
                                    result, override, KeysOf(heap[override.n])),
   cell |-> result]

deepMergeInHeap(heap, base, override) ==
  The({IF IsNull(override) THEN b
       ELSE MergeIntoNew(Append(b.heap, EmptyMap), Ref(Len(b.heap) + 1), b.cell, override)
       : b \in {BaseOrNew(heap, base)}})

\* ------------------------------------------------------- context builders
\* BuildComponentContext and BuildAddonContext of the context package. A
\* RawExtension is held as the JSON document of its bytes; NoRaw is the nil
\* pointer (or nil bytes).
NoRaw == [t |-> "noraw"]

\* p == nil for a pointer to a struct or a map of maps.
IsNil(p) == p = Null

cParameters == <<"p", "a", "r", "a", "m", "e", "t", "e", "r", "s">>
cWorkload == <<"w", "o", "r", "k", "l", "o", "a", "d">>
cComponent == <<"c", "o", "m", "p", "o", "n", "e", "n", "t">>
cAddon == <<"a", "d", "d", "o", "n">>
cInstanceId == <<"i", "n", "s", "t", "a", "n", "c", "e", "I", "d">>
cNamespace == <<"n", "a", "m", "e", "s", "p", "a", "c", "e">>
cEnvironment == <<"e", "n", "v", "i", "r", "o", "n", "m", "e", "n", "t">>
cDefault == <<"d", "e", "f", "a", "u", "l", "t">>
cProperties == <<"p", "r", "o", "p", "e", "r", "t", "i", "e", "s">>

\* extractParameters and extractParametersFromRawExtension: json.Unmarshal
\* into a map[string]any gives the map of an object, the nil map of null and
\* an error for any other document.
extractParameters(raw) ==
  IF raw = NoRaw THEN [err |-> NoErr, params |-> EmptyMap]
  ELSE IF IsMap(raw) \/ IsNull(raw) THEN [err |-> NoErr, params |-> raw]
  ELSE [err |-> "failed to unmarshal parameters", params |-> Null]

extractParametersFromRawExtension(raw) == extractParameters(raw)

\* schema.ToStructural: the fields of the schemas together; a field declared
\* by two of them is a conflicting declaration.
RECURSIVE ToStructural(_)
ToStructural(schemas) ==
  IF schemas = <<>> THEN [err |-> NoErr, structural |-> EmptyMap]
  ELSE The({IF rest.err # NoErr THEN rest
            ELSE IF DOMAIN schemas[1].m \cap DOMAIN rest.structural.m # {}
              THEN [err |-> "conflicting property declarations", structural |-> Null]
            ELSE [err |-> NoErr,
                  structural |-> Map([k \in DOMAIN schemas[1].m \cup DOMAIN rest.structural.m |->
                                        IF k \in DOMAIN schemas[1].m THEN schemas[1].m[k]
                                        ELSE rest.structural.m[k]])]
            : rest \in {ToStructural(Tail(schemas))}})

\* The fields of a map; a nil map has none.
FieldsOf(value) == IF IsNull(value) THEN {} ELSE DOMAIN value.m

\* schema.ApplyDefaults: every declared field that is absent and has a
\* default is present with that default, recursively across the nested
\* objects of the value.
RECURSIVE ApplyDefaults(_, _)
ApplyDefaults(value, structural) ==
  Map([k \in FieldsOf(value) \cup {f \in DOMAIN structural.m : HasKey(structural.m[f], cDefault)} |->
         IF k \notin FieldsOf(value) THEN structural.m[k].m[cDefault]
         ELSE IF /\ IsMap(value.m[k])
                 /\ k \in DOMAIN structural.m
                 /\ HasKey(structural.m[k], cProperties)
           THEN ApplyDefaults(value.m[k], structural.m[k].m[cProperties])
           ELSE value.m[k]])

\* schemas = append(schemas, params) for each schema that is set.
SchemasOf(params, envOverrides) ==
  (IF params = NoRaw THEN <<>> ELSE <<extractParameters(params).params>>)
    \o (IF envOverrides = NoRaw THEN <<>> ELSE <<extractParameters(envOverrides).params>>)

buildStructuralSchema(input) ==
  IF input.ParametersSchema # NoRaw /\ extractParameters(input.ParametersSchema).err # NoErr
    THEN [err |-> "failed to extract parameters schema", structural |-> Null]
  ELSE IF input.EnvOverridesSchema # NoRaw /\ extractParameters(input.EnvOverridesSchema).err # NoErr
    THEN [err |-> "failed to extract envOverrides schema", structural |-> Null]
  ELSE The({IF st.err # NoErr
              THEN [err |-> "failed to create structural schema", structural |-> Null]
              ELSE st
            : st \in {ToStructural(SchemasOf(input.ParametersSchema, input.EnvOverridesSchema))}})

\* extractWorkloadData, for a workload without containers, endpoints and
\* connections.
extractWorkloadData(workload) ==
  IF IsNil(workload) THEN EmptyMap
  ELSE IF workload.Name # <<>> THEN Map(kName :> Str(workload.Name))
  ELSE EmptyMap

NoContext(e) == [err |-> e, ctx |-> Null]

\* componentMeta
ComponentMeta(component) ==
  IF component.Namespace # <<>>
    THEN Map(kName :> Str(component.Name) @@ cNamespace :> Str(component.Namespace))
    ELSE Map(kName :> Str(component.Name))

\* Steps 7 and 8 of both builders: environment and additional metadata.
WithEnvironment(ctx, input) ==
  Map([k \in DOMAIN ctx.m
             \cup (IF input.Environment # <<>> THEN {cEnvironment} ELSE {})
             \cup (IF DOMAIN input.AdditionalMetadata.m # {} THEN {kMetadata} ELSE {}) |->
         IF k = cEnvironment /\ input.Environment # <<>> THEN Str(input.Environment)
         ELSE IF k = kMetadata /\ DOMAIN input.AdditionalMetadata.m # {} THEN input.AdditionalMetadata
         ELSE ctx.m[k]])

\* Steps 4 to 8 of BuildComponentContext, from the merged parameters.
ComponentContextOf(input, structural, parameters) ==
  [err |-> NoErr,
   ctx |-> WithEnvironment(
             Map([k \in {cParameters, cComponent}
                          \cup (IF IsNil(input.Workload) THEN {} ELSE {cWorkload}) |->
                    IF k = cParameters THEN ApplyDefaults(parameters, structural)
                    ELSE IF k = cComponent THEN ComponentMeta(input.Component)
                    ELSE extractWorkloadData(input.Workload)]),
             input)]

\* Step 3 with the environment overrides before the component parameters.
MergeComponentOverridesUnder(input, structural, parameters) ==
  IF ~IsNil(input.EnvSettings) /\ input.EnvSettings.Overrides # NoRaw
    THEN The({IF env.err # NoErr THEN NoContext("failed to extract environment overrides")
              ELSE ComponentContextOf(input, structural, deepMerge(env.params, parameters))
              : env \in {extractParameters(input.EnvSettings.Overrides)}})
    ELSE ComponentContextOf(input, structural, parameters)

\* Step 3 of BuildComponentContext: merge the environment overrides if present.
MergeComponentOverrides(input, structural, parameters) ==
  IF ~IsNil(input.EnvSettings) /\ input.EnvSettings.Overrides # NoRaw
    THEN The({IF env.err # NoErr THEN NoContext("failed to extract environment overrides")
              ELSE ComponentContextOf(input, structural, deepMerge(parameters, env.params))
              : env \in {extractParameters(input.EnvSettings.Overrides)}})
    ELSE ComponentContextOf(input, structural, parameters)

\* Step 2 of BuildComponentContext: start with the component parameters.
ComponentParameters(input, structural) ==
  The({IF p.err # NoErr THEN NoContext("failed to extract component parameters")
       ELSE MergeComponentOverrides(input, structural, p.params)
       : p \in {extractParameters(input.Component.Parameters)}})

BuildComponentContext(input) ==
  IF IsNil(input) THEN NoContext("component context input is nil")
  ELSE IF IsNil(input.Component) THEN NoContext("component is nil")
  ELSE IF IsNil(input.ComponentTypeDefinition) THEN NoContext("component type definition is nil")
  ELSE The({IF st.err # NoErr THEN NoContext("failed to build component schema")
            ELSE ComponentParameters(input, st.structural)
            : st \in {buildStructuralSchema(
                        [ParametersSchema |-> input.ComponentTypeDefinition.Parameters,
                         EnvOverridesSchema |-> input.ComponentTypeDefinition.EnvOverrides])}})

\* addonMeta
AddonMeta(input) ==
  Map(kName :> Str(input.Addon.Name) @@ cInstanceId :> Str(input.Instance.InstanceID))

\* Steps 4 to 8 of BuildAddonContext, from the merged parameters.
AddonContextOf(input, structural, parameters) ==
  [err |-> NoErr,
   ctx |-> WithEnvironment(
             Map([k \in {cParameters, cAddon, cComponent} |->
                    IF k = cParameters THEN ApplyDefaults(parameters, structural)
                    ELSE IF k = cAddon THEN AddonMeta(input)
                    ELSE ComponentMeta(input.Component)]),
             input)]

\* AddonOverrides[addonName][instanceID] is there: both lookups are ok. The
\* map of maps is [of |-> it], or Null when nil.
HasInstanceOverride(input) ==
  /\ ~IsNil(input.EnvSettings)
  /\ ~IsNil(input.EnvSettings.AddonOverrides)
  /\ input.Addon.Name \in DOMAIN input.EnvSettings.AddonOverrides.of
  /\ input.Instance.InstanceID \in DOMAIN input.EnvSettings.AddonOverrides.of[input.Addon.Name]

\* The override of some instance of the addon is merged, whichever it is.
MergeAddonOverridesOfAnyInstance(input, structural, parameters) ==
  IF /\ ~IsNil(input.EnvSettings)
     /\ ~IsNil(input.EnvSettings.AddonOverrides)
     /\ input.Addon.Name \in DOMAIN input.EnvSettings.AddonOverrides.of
    THEN The({IF env.err # NoErr THEN NoContext("failed to extract addon environment overrides")
              ELSE AddonContextOf(input, structural, deepMerge(parameters, env.params))
              : env \in {extractParametersFromRawExtension(
                           The({byInstance[CHOOSE i \in DOMAIN byInstance : TRUE]
                                : byInstance \in {input.EnvSettings.AddonOverrides.of[input.Addon.Name]}}))}})
    ELSE AddonContextOf(input, structural, parameters)

\* Step 3 of BuildAddonContext: merge the override of this instance if present.
MergeAddonOverrides(input, structural, parameters) ==
  IF HasInstanceOverride(input)
    THEN The({IF env.err # NoErr THEN NoContext("failed to extract addon environment overrides")
              ELSE AddonContextOf(input, structural, deepMerge(parameters, env.params))
              : env \in {extractParametersFromRawExtension(
                           input.EnvSettings.AddonOverrides.of[input.Addon.Name][input.Instance.InstanceID])}})
    ELSE AddonContextOf(input, structural, parameters)

\* Step 2 of BuildAddonContext: start with the instance config.
AddonParameters(input, structural) ==
  The({IF p.err # NoErr THEN NoContext("failed to extract addon instance parameters")
       ELSE MergeAddonOverrides(input, structural, p.params)
       : p \in {extractParameters(input.Instance.Config)}})

BuildAddonContext(input) ==
  IF IsNil(input) THEN NoContext("addon context input is nil")
  ELSE IF IsNil(input.Addon) THEN NoContext("addon is nil")
  ELSE IF IsNil(input.Component) THEN NoContext("component is nil")
  ELSE The({IF st.err # NoErr THEN NoContext("failed to build addon schema")
            ELSE AddonParameters(input, st.structural)
            : st \in {buildStructuralSchema(
                        [ParametersSchema |-> input.Addon.Parameters,
                         EnvOverridesSchema |-> input.Addon.EnvOverrides])}})

\* ---------------------------------------------------------------- oc_merge
\* The binary oc_merge of the template functions. A ref.Val is Val(x) around
\* the Go value it holds: a map[string]any is Map(f) with Go values, a
\* map[ref.Val]ref.Val is CelMap(f) with ref.Val values.
Val(x) == [t |-> "val", v |-> x]
CelMap(f) == [t |-> "celmap", m |-> f]
IsVal(x) == x.t = "val"
IsCelMap(x) == x.t = "celmap"

\* types.DefaultTypeAdapter.NativeToValue
NativeToValue(x) == IF IsVal(x) THEN x ELSE Val(x)

\* The switch on baseVal and on overrideVal: the map itself, or a new map of
\* the Go values under the string keys.
ToGoMap(x) ==
  CASE IsMap(x) -> x
    [] IsCelMap(x) -> Map([k \in DOMAIN x.m |-> x.m[k].v])
    [] OTHER -> EmptyMap

\* maps.Copy(dst, src)
MapsCopy(dst, src) ==
  Map([k \in DOMAIN dst.m \cup DOMAIN src.m |->
         IF k \in DOMAIN src.m THEN src.m[k] ELSE dst.m[k]])

\* celResult[types.String(k)] = NativeToValue(v)
ToCelMap(result) == CelMap([k \in DOMAIN result.m |-> NativeToValue(result.m[k])])

\* The merge with the copies in the other order: what lhs holds stays.
mergeMapFunctionKeepsLeft(lhs, rhs) ==
  Val(ToCelMap(MapsCopy(MapsCopy(EmptyMap, ToGoMap(rhs.v)), ToGoMap(lhs.v))))

mergeMapFunction(lhs, rhs) ==
  Val(ToCelMap(MapsCopy(MapsCopy(EmptyMap, ToGoMap(lhs.v)), ToGoMap(rhs.v))))

\* mergeMacro: oc_merge(a, b, c, ...) is oc_merge(oc_merge(a, b), c) ...
RECURSIVE ChainMerges(_, _)
ChainMerges(result, args) ==
  IF args = <<>> THEN result
  ELSE ChainMerges(mergeMapFunction(result, args[1]), Tail(args))

mergeMacro(args) ==
  IF Len(args) < 2 THEN [err |-> "oc_merge requires at least 2 arguments", result |-> Null]
  ELSE [err |-> NoErr,
        result |-> ChainMerges(mergeMapFunction(args[1], args[2]), Tail(Tail(args)))]

\* mergeMapFunction on two map[string]any held in the heap: baseMap and
\* overrideMap are the arguments themselves, result and celResult are new.
mergeMapFunctionInHeap(heap, lhs, rhs) ==
  [heap |-> heap \o <<MapsCopy(MapsCopy(EmptyMap, heap[lhs.n]), heap[rhs.n]),
                      MapsCopy(MapsCopy(EmptyMap, heap[lhs.n]), heap[rhs.n])>>,
   cell |-> Ref(Len(heap) + 2)]

\* ------------------------------------------------ EnvSettings reconciler

ConditionReady == "Ready"
ReasonReleaseReady == "ReleaseReady"
ReasonComponentEnvSnapshotNotFound == "ComponentEnvSnapshotNotFound"
ReasonInvalidSnapshotConfiguration == "InvalidSnapshotConfiguration"
ReasonRenderingFailed == "RenderingFailed"
ReasonReleaseOwnershipConflict == "ReleaseOwnershipConflict"
ReasonReleaseCreationFailed == "ReleaseCreationFailed"
ReasonReleaseUpdateFailed == "ReleaseUpdateFailed"

\* An object's status conditions hold at most one condition per type; the
\* reconcilers set one type only, Ready, so the list is that condition.
NoCondition == [Status |-> "", Reason |-> ""]

MarkTrueCondition(obj, reason) ==
  [obj EXCEPT !.Status.Ready = [Status |-> "True", Reason |-> reason]]

MarkFalseCondition(obj, reason) ==
  [obj EXCEPT !.Status.Ready = [Status |-> "False", Reason |-> reason]]

\* validateSnapshot's error, NoErr for a valid snapshot.
validateSnapshot(snapshot) ==
  IF snapshot.Resources = Null THEN "component type definition has no resources"
  ELSE IF snapshot.Component = <<>> THEN "component name is empty"
  ELSE IF snapshot.Workload = <<>> THEN "workload name is empty"
  ELSE IF snapshot.ProjectName = <<>>
    THEN "snapshot owner missing required field: projectName"
  ELSE IF snapshot.ComponentName = <<>>
    THEN "snapshot owner missing required field: componentName"
  ELSE NoErr

\* v, _ := x.(string) and m, _ := x.(map[string]any): the zero value when the
\* assertion fails.
AsString(x) == IF x.t = "str" THEN x.s ELSE <<>>
AsMap(x) == IF x.t = "map" THEN x ELSE EmptyMap

UpperCase == <<"A", "B", "C", "D", "E", "F", "G", "H", "I", "J", "K", "L", "M",
               "N", "O", "P", "Q", "R", "S", "T", "U", "V", "W", "X", "Y", "Z">>
LowerCase == <<"a", "b", "c", "d", "e", "f", "g", "h", "i", "j", "k", "l", "m",
               "n", "o", "p", "q", "r", "s", "t", "u", "v", "w", "x", "y", "z">>

LowerChar(c) ==
  IF \E i \in 1..26 : UpperCase[i] = c
    THEN LowerCase[CHOOSE i \in 1..26 : UpperCase[i] = c]
    ELSE c

\* strings.ToLower on a text.
StringsToLower(s) == [i \in 1..Len(s) |-> LowerChar(s[i])]

generateResourceID(resource, index) ==
  The({IF kind # <<>> /\ name # <<>>
         THEN StringsToLower(kind) \o <<"-">> \o name
         ELSE <<"r", "e", "s", "o", "u", "r", "c", "e", "-">> \o Itoa(index)
       : kind \in {AsString(Lookup(resource, "kind"))},
         name \in {AsString(Lookup(AsMap(Lookup(resource, "metadata")), "name"))}})

convertToReleaseResources(rendered) ==
  [i \in 1..Len(rendered) |->
     [ID |-> generateResourceID(rendered[i], i - 1), Object |-> rendered[i]]]

\* A Release is Null while absent, otherwise who controls it and its
\* resources; its labels and owner names follow the EnvSettings, which the
\* model keeps fixed.
OwnerEnvSettings == "envSettings"
OwnerOther == "other"

isOwnedByEnvSettings(release) == release # Null /\ release.Owner = OwnerEnvSettings

OperationResultNone == "unchanged"
OperationResultCreated == "created"
OperationResultUpdated == "updated"

ErrNotOwned == "release exists but is not owned by this EnvSettings"
ErrGet == "get failed"
ErrWrite == "write failed"

\* controllerutil.CreateOrUpdate with reconcileRelease's mutate function:
\* read the Release, mutate it, and create it when absent or update it when
\* the mutation changed it. fault is the API call that fails, if any.
CreateOrUpdate(release, releaseResources, fault) ==
  IF fault = "releaseGet" THEN [err |-> ErrGet, op |-> OperationResultNone, release |-> release]
  ELSE IF release = Null
    THEN IF fault = "releaseWrite"
           THEN [err |-> ErrWrite, op |-> OperationResultNone, release |-> release]
           ELSE [err |-> NoErr, op |-> OperationResultCreated,
                 release |-> [Owner |-> OwnerEnvSettings, Resources |-> releaseResources]]
  ELSE IF ~isOwnedByEnvSettings(release)
    THEN [err |-> ErrNotOwned, op |-> OperationResultNone, release |-> release]
  ELSE IF release.Resources = releaseResources
    THEN [err |-> NoErr, op |-> OperationResultNone, release |-> release]
  ELSE IF fault = "releaseWrite"
    THEN [err |-> ErrWrite, op |-> OperationResultNone, release |-> release]
  ELSE [err |-> NoErr, op |-> OperationResultUpdated,
        release |-> [Owner |-> OwnerEnvSettings, Resources |-> releaseResources]]

RenderFailed == "render failed"

\* reconcileRelease's last step: mark as ready.
MarkReadyOnSuccess(envSettings, op) ==
  IF op = OperationResultCreated \/ op = OperationResultUpdated
    THEN MarkTrueCondition(envSettings, ReasonReleaseReady)
    ELSE envSettings

AfterCreateOrUpdate(envSettings, r) ==
  IF r.err # NoErr
    THEN IF r.err = ErrNotOwned
           THEN [err |-> NoErr, createErr |-> r.err, op |-> r.op, release |-> r.release,
                 envSettings |-> MarkFalseCondition(envSettings, ReasonReleaseOwnershipConflict)]
           ELSE [err |-> r.err, createErr |-> r.err, op |-> r.op, release |-> r.release,
                 envSettings |->
                   MarkFalseCondition(envSettings,
                     IF r.op = OperationResultCreated THEN ReasonReleaseCreationFailed
                     ELSE ReasonReleaseUpdateFailed)]
    ELSE [err |-> NoErr, createErr |-> NoErr, op |-> r.op, release |-> r.release,
          envSettings |-> MarkReadyOnSuccess(envSettings, r.op)]

\* reconcileRelease returns its error, CreateOrUpdate's own error and result,
\* the Release as stored and the EnvSettings in memory. rendered is
\* Pipeline.Render's output: its resources, or RenderFailed.
reconcileRelease(envSettings, release, rendered, fault) ==
  IF rendered = RenderFailed
    THEN [err |-> "failed to render resources", createErr |-> "not called",
          op |-> "not called", release |-> release,
          envSettings |-> MarkFalseCondition(envSettings, ReasonRenderingFailed)]
    ELSE AfterCreateOrUpdate(envSettings,
           CreateOrUpdate(release, convertToReleaseResources(rendered), fault))

NotReached == [reached |-> FALSE]

\* Reconcile's body up to its return: the error, the EnvSettings in memory,
\* the Release as stored and what reconcileRelease returned.
ReconcileBody(envSettings, snapshot, release, rendered, fault) ==
  IF fault = "snapshotGet"
    THEN [err |-> ErrGet, envSettings |-> envSettings, release |-> release,
          reconcileRelease |-> NotReached]
  ELSE IF snapshot = Null
    THEN [err |-> NoErr, release |-> release, reconcileRelease |-> NotReached,
          envSettings |-> MarkFalseCondition(envSettings, ReasonComponentEnvSnapshotNotFound)]
  ELSE IF validateSnapshot(snapshot) # NoErr
    THEN [err |-> NoErr, release |-> release, reconcileRelease |-> NotReached,
          envSettings |-> MarkFalseCondition(envSettings, ReasonInvalidSnapshotConfiguration)]
  ELSE The({[err |-> r.err, envSettings |-> r.envSettings, release |-> r.release,
             reconcileRelease |-> [reached |-> TRUE, rendered |-> rendered, err |-> r.err,
                                   createErr |-> r.createErr, op |-> r.op,
                                   Ready |-> r.envSettings.Status.Ready]]
            : r \in {reconcileRelease(envSettings, release, rendered, fault)}})

\* The deferred status update: the observed generation is set, and the
\* status is written unless it equals the one read.
DeferredStatusUpdate(old, body, fault) ==
  The({IF status = old.Status
         THEN [err |-> body.err, stored |-> old, updated |-> FALSE]
       ELSE IF fault = "statusUpdate"
         THEN [err |-> IF body.err = NoErr THEN ErrWrite ELSE body.err,
               stored |-> old, updated |-> FALSE]
       ELSE [err |-> body.err, stored |-> [old EXCEPT !.Status = status], updated |-> TRUE]
       : status \in {[body.envSettings.Status EXCEPT
                        !.ObservedGeneration = old.Generation]}})

\* --------------------------------------------------- Endpoint reconciler

\* An Endpoint is Null while absent, otherwise its labels (set or nil), its
\* deletion timestamp (set or zero), its finalizer (EndpointFinalizer among
\* its finalizers or not), its generation and its status. The one condition
\* the reconciler sets is Ready.
NoReadyCondition == [Status |-> "", ObservedGeneration |-> 0]

\* &choreov1.Endpoint{}
EmptyEndpoint ==
  [Labels |-> FALSE, Deleting |-> FALSE, Finalizer |-> FALSE, Generation |-> 0,
   Status |-> [Ready |-> NoReadyCondition, Address |-> <<>>]]

NewEndpointReadyCondition(generation, ready) ==
  [Status |-> IF ready THEN "True" ELSE "False", ObservedGeneration |-> generation]

\* meta.IsStatusConditionTrue(conditions, ConditionReady)
IsStatusConditionTrue(status) == status.Ready.Status = "True"

\* controller.NeedConditionUpdate(old, new): the conditions differ.
NeedConditionUpdate(old, new) == old.Ready # new.Ready

\* kubernetes.MakeAddress: the address of the endpoint, the same in every
\* reconcile of the model.
MakeAddress == <<"h", "/", "p">>

ErrContext == "cannot retrieve the project"
ErrPatch == "failed to add finalizer to endpoint"
ErrState == "error retrieving current state of the external resource"
ErrExternal == "error deleting endpoints external resource"

\* The API server removes an object that is being deleted once its last
\* finalizer is gone.
Stored(e) == IF e.Deleting /\ ~e.Finalizer THEN Null ELSE e

\* What a Reconcile leaves: its error, the Endpoint and the HTTPRoute as
\* stored, the events recorded and whether Status().Update was called.
Outcome(error, endpoint, route, events, statusUpdated) ==
  [err |-> error, endpoint |-> endpoint, route |-> route, events |-> events,
   statusUpdated |-> statusUpdated]

\* addFinalizer and removeFinalizer return the error and the Endpoint in
\* memory; the patch is stored when there is no error.
addFinalizer(e, fault) ==
  IF e.Finalizer THEN [err |-> NoErr, e |-> e]
  ELSE IF fault = "patch" THEN [err |-> ErrPatch, e |-> e]
  ELSE [err |-> NoErr, e |-> [e EXCEPT !.Finalizer = TRUE]]

removeFinalizer(e, fault) ==
  IF ~e.Finalizer THEN [err |-> NoErr, e |-> e]
  ELSE IF fault = "patch" THEN [err |-> ErrPatch, e |-> e]
  ELSE [err |-> NoErr, e |-> [e EXCEPT !.Finalizer = FALSE]]

\* The one resource handler is that of the HTTPRoute: route tells whether the
\* HTTPRoute exists. Both return the error and the route left.
removeExternalResources(route, fault) ==
  IF fault = "getState" THEN [err |-> ErrState, route |-> route]
  ELSE IF route
    THEN IF fault = "write" THEN [err |-> ErrExternal, route |-> route]
         ELSE [err |-> NoErr, route |-> FALSE]
  ELSE [err |-> NoErr, route |-> route]

reconcileExternalResources(route, required, fault) ==
  IF ~required
    THEN IF fault = "write" THEN [err |-> ErrExternal, route |-> route]
         ELSE [err |-> NoErr, route |-> FALSE]
  ELSE IF fault = "getState" THEN [err |-> ErrState, route |-> route]
  ELSE IF fault = "write" THEN [err |-> ErrExternal, route |-> route]
  ELSE [err |-> NoErr, route |-> TRUE]

\* Reconcile from "meta.SetStatusCondition(... true ...)" on: e is the
\* Endpoint in memory, old the copy taken at the start.
MarkEndpointReady(old, e, stored, route, fault) ==
  The({IF ready.Status.Address # old.Status.Address
            \/ NeedConditionUpdate(old.Status, ready.Status)
         THEN IF fault = "statusUpdate"
                THEN Outcome("status update failed", stored, route, <<>>, FALSE)
                ELSE Outcome(NoErr, ready, route,
                       IF ~IsStatusConditionTrue(old.Status) /\ IsStatusConditionTrue(ready.Status)
                         THEN <<"EndpointReady">> ELSE <<>>,
                       TRUE)
         ELSE Outcome(NoErr, stored, route,
                IF ~IsStatusConditionTrue(old.Status) /\ IsStatusConditionTrue(ready.Status)
                  THEN <<"EndpointReady">> ELSE <<>>,
                FALSE)
       : ready \in {[e EXCEPT !.Status.Ready = NewEndpointReadyCondition(e.Generation, TRUE),
                              !.Status.Address = MakeAddress]}})

\* Reconcile after a failed reconcileExternalResources: the condition is set
\* to not ready and the Endpoint is patched. patch is what the patch of the
\* object does: it fails, it is stored without the status (the status is a
\* subresource), or it is stored with it.
MarkEndpointNotReady(e, ext, patch) ==
  IF patch = "fails"
    THEN Outcome(ErrPatch, e, ext.route, <<"ExternalResourceReconciliationFailed">>, FALSE)
    ELSE Outcome(ext.err,
           IF patch = "objectAndStatus"
             THEN [e EXCEPT !.Status.Ready = NewEndpointReadyCondition(e.Generation, FALSE)]
             ELSE e,
           ext.route, <<"ExternalResourceReconciliationFailed">>, FALSE)

\* Reconcile of an Endpoint without deletion timestamp, after addFinalizer.
ProvisionEndpoint(old, e, route, required, fault, patch) ==
  The({IF ext.err # NoErr
         THEN MarkEndpointNotReady(e, ext, patch)
         ELSE MarkEndpointReady(old, e, e, ext.route, fault)
       : ext \in {reconcileExternalResources(route, required, fault)}})

\* Reconcile of an Endpoint with a deletion timestamp.
FinalizeEndpoint(e, route, fault) ==
  The({IF f.err # NoErr THEN Outcome(f.err, e, route, <<>>, FALSE)
       ELSE The({Outcome(ext.err, Stored(f.e), ext.route, <<>>, FALSE)
                 : ext \in {removeExternalResources(route, fault)}})
       : f \in {removeFinalizer(e, fault)}})

\* The copy Reconcile compares with: taken from the Endpoint as allocated.
OldEndpoint(e) == EmptyEndpoint

\* Reconcile on the objects the API server holds.
ReconcileEndpoint(stored, fault, patch) ==
  IF fault = "get" THEN Outcome("get failed", stored.endpoint, stored.route, <<>>, FALSE)
  ELSE IF stored.endpoint = Null
    THEN Outcome(NoErr, stored.endpoint, stored.route, <<>>, FALSE)
  ELSE IF ~stored.endpoint.Labels
    THEN Outcome(NoErr, stored.endpoint, stored.route, <<>>, FALSE)
  ELSE IF fault = "context"
    THEN Outcome(ErrContext, stored.endpoint, stored.route, <<"ContextResolutionFailed">>, FALSE)
  ELSE IF ~stored.endpoint.Deleting
    THEN The({IF f.err # NoErr
                THEN Outcome(f.err, stored.endpoint, stored.route, <<>>, FALSE)
                ELSE ProvisionEndpoint(OldEndpoint(stored.endpoint), f.e, stored.route,
                                       stored.required, fault, patch)
              : f \in {addFinalizer(stored.endpoint, fault)}})
  ELSE FinalizeEndpoint(stored.endpoint, stored.route, fault)

\* ------------------------------------------------------------------ inputs
\* The documents, paths, values and patch specs the calls are drawn from.

kAnn == <<"a", "n", "n">>
kOwner == <<"o", "w", "n", "e", "r">>
kTeam == <<"t", "e", "a", "m">>
kNested == <<"n", "e", "s", "t", "e", "d">>
kKeep == <<"k", "e", "e", "p">>
kContainers == <<"c">>
kRole == <<"r", "o", "l", "e">>
kEnv == <<"e", "n", "v">>
kSlashKey == <<"a", "/", "b">>
kTildeKey == <<"a", "~", "1", "b">>

\* {a: {x: 1, y: 2}, b: 3}
DocPlain ==
  Map(<<"a">> :> Map(<<"x">> :> Str(<<"1">>) @@ <<"y">> :> Str(<<"2">>)) @@ <<"b">> :> Str(<<"3">>))

Container(name, role) == Map(kName :> Str(name) @@ kRole :> Str(role))

\* A Deployment named api: annotations with a key holding "/" and a nested
\* map; four containers, the first and the third workers, the third without
\* env, the last without role.
DocApi ==
  Map(kApiVersion :> Str(<<"a", "p", "p", "s", "/", "v", "1">>) @@ kKind :> Str(<<"D", "e", "p", "l", "o", "y", "m", "e", "n", "t">>)
      @@ kMetadata :> Map(kName :> Str(<<"a", "p", "i">>)
                          @@ kAnn :> Map(kOwner :> Str(<<"p">>) @@ kSlashKey :> Str(<<"1">>)
                                         @@ kNested :> Map(kKeep :> Str(<<"r">>))))
      @@ kContainers :> Arr(<<MapSet(Container(<<"a", "p", "p">>, <<"w">>), kEnv, Arr(<<Map(kName :> Str(<<"A">>))>>)),
                              MapSet(Container(<<"d", "b">>, <<"x">>), kEnv, EmptyArr),
                              Container(<<"l", "o", "g">>, <<"w">>),
                              Map(kName :> Str(<<"a", "u", "x">>))>>))

\* A Deployment named worker: no container is a worker.
DocWorker ==
  Map(kApiVersion :> Str(<<"a", "p", "p", "s", "/", "v", "1">>) @@ kKind :> Str(<<"D", "e", "p", "l", "o", "y", "m", "e", "n", "t">>)
      @@ kMetadata :> Map(kName :> Str(<<"w", "o", "r", "k", "e", "r">>) @@ kAnn :> Map(kOwner :> Str(<<"o">>)))
      @@ kContainers :> Arr(<<MapSet(Container(<<"a", "p", "p">>, <<"x">>), kEnv, EmptyArr)>>))

\* A resource without a name, without containers, with a null member.
DocBare ==
  Map(kApiVersion :> Str(<<"v", "1">>) @@ kKind :> Str(<<"C", "o", "n", "f", "i", "g", "M", "a", "p">>)
      @@ kMetadata :> Map(kAnn :> Null) @@ <<"b">> :> Null)

\* {}
DocEmpty == EmptyMap

Docs == {DocPlain, DocApi, DocWorker, DocBare, DocEmpty}

PathRoot == <<>>
PathA == <<"/", "a">>
PathB == <<"/", "b">>
PathAnn == <<"/", "m", "e", "t", "a", "d", "a", "t", "a", "/", "a", "n", "n">>
PathOwner == <<"/", "m", "e", "t", "a", "d", "a", "t", "a", "/", "a", "n", "n", "/", "o", "w", "n", "e", "r">>
PathEscaped == <<"/", "m", "e", "t", "a", "d", "a", "t", "a", "/", "a", "n", "n", "/", "a", "~", "1", "b">>
PathAbsent == <<"/", "m", "e", "t", "a", "d", "a", "t", "a", "/", "l", "a", "b", "e", "l", "s", "/", "a", "p", "p">>
PathWorkersEnvAppend == <<"/", "c", "/", "[", "?", "(", "@", ".", "r", "o", "l", "e", "=", "=", "'", "w", "'", ")", "]", "/", "e", "n", "v", "/", "-">>
PathWorkersEnv == <<"/", "c", "/", "[", "?", "(", "@", ".", "r", "o", "l", "e", "=", "=", "'", "w", "'", ")", "]", "/", "e", "n", "v">>
PathWorkers == <<"/", "c", "/", "[", "?", "(", "@", ".", "r", "o", "l", "e", "=", "=", "'", "w", "'", ")", "]">>
PathNoMatch == <<"/", "c", "/", "[", "?", "(", "@", ".", "r", "o", "l", "e", "=", "=", "'", "q", "'", ")", "]", "/", "e", "n", "v", "/", "-">>
PathFilterMissing == <<"/", "v", "o", "l", "u", "m", "e", "s", "/", "[", "?", "(", "@", ".", "n", "a", "m", "e", "=", "=", "'", "v", "'", ")", "]", "/", "p", "a", "t", "h">>
PathFilterNotArray == <<"/", "m", "e", "t", "a", "d", "a", "t", "a", "/", "[", "?", "(", "@", ".", "n", "a", "m", "e", "=", "=", "'", "a", "p", "i", "'", ")", "]">>
PathFirstEnv == <<"/", "c", "/", "0", "/", "e", "n", "v", "/", "0">>
PathOutOfBounds == <<"/", "c", "/", "7">>
PathNewAppend == <<"/", "x", "/", "y", "/", "-">>
PathThroughName == <<"/", "m", "e", "t", "a", "d", "a", "t", "a", "/", "n", "a", "m", "e", "/", "x">>
PathEnvFilter == <<"/", "c", "/", "0", "/", "e", "n", "v", "/", "[", "?", "(", "@", ".", "n", "a", "m", "e", "=", "=", "'", "A", "'", ")", "]">>

Paths ==
  {PathRoot, PathA, PathB, PathAnn, PathOwner, PathEscaped, PathAbsent,
   PathWorkersEnvAppend, PathWorkersEnv, PathWorkers, PathNoMatch,
   PathFilterMissing, PathFilterNotArray, PathFirstEnv, PathOutOfBounds, PathEnvFilter,
   PathNewAppend}

\* {a: {z: 3}}
ValueMap == Map(<<"a">> :> Map(<<"z">> :> Str(<<"3">>)))
\* {nested: {added: [new]}, team: p}
ValueNested == Map(kNested :> Map(<<"a", "d", "d", "e", "d">> :> Arr(<<Str(<<"n", "e", "w">>)>>)) @@ kTeam :> Str(<<"p">>))
ValueText == Str(<<"p">>)
ValueOne == Str(<<"1">>)

StrPaths == {Str(p) : p \in Paths}

\* The operations a call is drawn from: every path with each kind of operation,
\* a remove carrying a value that cannot be rendered, an unknown op, and a
\* test for the value some resource holds under an escaped key.
Operations ==
  [op : {"add", "replace", "test"}, path : StrPaths, value : {ValueMap, ValueText}]
    \cup [op : {"mergeShallow"}, path : StrPaths,
          value : {ValueMap, ValueNested, ValueText, Expr("annotationValue")}]
    \cup [op : {"remove", "Remove"}, path : StrPaths, value : {Expr("missing")}]
    \cup [op : {"move", "copy"}, path : {Str(PathA), Str(PathOwner), Str(PathAbsent)},
          value : {ValueText}]
    \cup [op : {"add", "mergeShallow"}, path : {Str(PathAnn)}, value : {Expr("missing")}]
    \cup [op : {"add"}, path : {Expr("missing"), Expr("true")}, value : {ValueText}]
    \cup [op : {"patch"}, path : {Str(PathA)}, value : {ValueText}]
    \cup [op : {"test"}, path : {Str(PathEscaped), Str(PathOwner)}, value : {ValueOne}]

AddonApi == Map(kName :> Str(<<"a", "p", "i">>) @@ kKey :> Str(<<"t", "e", "a", "m">>) @@ kValue :> Str(<<"p">>))
AddonWorker == Map(kName :> Str(<<"w", "o", "r", "k", "e", "r">>) @@ kKey :> Str(<<"t", "e", "a", "m">>) @@ kValue :> Str(<<"o">>))

AddonNoKey == Map(kName :> Str(<<"a", "p", "i">>) @@ kValue :> Str(<<"p">>))

InputsAddon == "addon" :> AddonApi

\* The contexts ApplySpec is called with: the addons list alone; the list
\* with "resource", "addon" and "item" already bound by the caller; nothing.
InputsList == "addons" :> Arr(<<AddonApi, AddonWorker>>)
InputsBound ==
  "addons" :> Arr(<<AddonNoKey, AddonWorker>>) @@ "resource" :> Str(<<"o", "u", "t", "e", "r">>)
    @@ "addon" :> AddonWorker @@ "item" :> Str(<<"o", "u", "t", "e", "r">>)
InputsEmpty == <<>>

SpecInputs == {InputsList, InputsBound, InputsEmpty}

ResourceLists == {<<DocApi, DocBare, DocWorker>>}

TargetAll ==
  [kind |-> <<>>, group |-> <<>>, version |-> <<>>, name |-> <<>>, where |-> ""]
TargetDeployment == [TargetAll EXCEPT !.kind = <<"D", "e", "p", "l", "o", "y", "m", "e", "n", "t">>]

\* mergeShallow /metadata/ann {addon.key: addon.value}
OpAnnotate == [op |-> "mergeShallow", path |-> Str(PathAnn), value |-> Expr("annotationValue")]
\* test /metadata/ann/owner == "p"
OpTestOwner == [op |-> "test", path |-> Str(PathOwner), value |-> ValueText]

\* add /metadata/labels/app "p"
OpLabel == [op |-> "add", path |-> Str(PathAbsent), value |-> ValueText]
\* patch /a "p"
OpUnknown == [op |-> "patch", path |-> Str(PathA), value |-> ValueText]
\* replace /c/7 "p"
OpOutOfBounds == [op |-> "replace", path |-> Str(PathOutOfBounds), value |-> ValueText]
\* add /metadata/name/x "p"
OpThroughName == [op |-> "add", path |-> Str(PathThroughName), value |-> ValueText]

\* replace /kind "Job"
PathKind == <<"/", "k", "i", "n", "d">>
OpRetype == [op |-> "replace", path |-> Str(PathKind), value |-> Str(<<"J", "o", "b">>)]

OperationLists ==
  {<<>>, <<OpAnnotate>>, <<OpTestOwner, OpAnnotate>>, <<OpAnnotate, OpLabel>>,
   <<OpLabel, OpUnknown, OpAnnotate>>, <<OpOutOfBounds, OpLabel>>, <<OpLabel, OpThroughName>>}

Wheres == {"", "matchName", "notBool", "fail"}

PatchSpecs ==
  {[forEach |-> "addons", var |-> "addon",
    target |-> [t EXCEPT !.where = w], operations |-> ops] :
      t \in {TargetAll, TargetDeployment},
      w \in Wheres, ops \in OperationLists}
    \cup
  {[forEach |-> "", var |-> "",
    target |-> [TargetAll EXCEPT !.where = w], operations |-> ops] :
      w \in Wheres, ops \in OperationLists}
    \cup
  {[forEach |-> "addons", var |-> "addon",
    target |-> TargetDeployment, operations |-> ops] :
      ops \in {<<OpRetype, OpAnnotate>>, <<OpAnnotate, OpRetype>>}}
    \cup
  {[forEach |-> f, var |-> "",
    target |-> [TargetAll EXCEPT !.where = w], operations |-> <<OpAnnotate>>] :
      f \in {"addons", "notBool", "fail"}, w \in {"", "true"}}

Checkers == {"nil", "isMissing"}

\* ------------------------------------------------------------ state machine

\* Calls made in one behaviour.
MaxSteps == 1

VARIABLES
  resources,   \* the rendered resources, patched in place
  inputs,      \* the context map the caller passes in
  err,         \* what the last call returned
  call,        \* the last call and its arguments
  before,      \* resources and inputs as they were when the last call began
  steps,
  heap,        \* the maps and slices of a resource and a value, as nodes
  held,        \* the cells of that resource and that value
  returned,    \* what the last call returned besides its error
  objects      \* the objects a reconciler works on, as the API server holds them

vars == <<resources, inputs, err, call, before, steps, heap, held, returned, objects>>

NoHeap == <<>>
NoneHeld == [resource |-> Null, value |-> Null]

NoCall == [kind |-> "none"]
NoReturn == Null
NoObjects == Null

Init ==
  /\ resources \in {<<d>> : d \in Docs}
  /\ inputs = InputsAddon
  /\ err = NoErr
  /\ call = NoCall
  /\ before = [resources |-> resources, inputs |-> inputs]
  /\ steps = 0
  /\ heap = NoHeap
  /\ held = NoneHeld
  /\ returned = NoReturn
  /\ objects = NoObjects

\* ApplyOperation(resources[i], operation, inputs, render)
CallApplyOperation ==
  /\ steps < MaxSteps
  /\ \E i \in 1..Len(resources), operation \in Operations :
     \E r \in {ApplyOperation(resources[i], operation, inputs)} :
       /\ resources' = [resources EXCEPT ![i] = r.doc]
       /\ err' = r.err
       /\ call' = [kind |-> "operation", i |-> i, operation |-> operation]
  /\ before' = [resources |-> resources, inputs |-> inputs]
  /\ steps' = steps + 1
  /\ UNCHANGED <<inputs, heap, held, returned>>
  /\ UNCHANGED objects

Next == CallApplyOperation

Spec == Init /\ [][Next]_vars

InitApplySpec ==
  /\ resources \in ResourceLists
  /\ inputs \in SpecInputs
  /\ err = NoErr
  /\ call = NoCall
  /\ before = [resources |-> resources, inputs |-> inputs]
  /\ steps = 0
  /\ heap = NoHeap
  /\ held = NoneHeld
  /\ returned = NoReturn
  /\ objects = NoObjects

\* ApplySpec(resources, spec, inputs, matcher, render, isMissingData)
CallApplySpec ==
  /\ steps < MaxSteps
  /\ \E spec \in PatchSpecs, checker \in Checkers :
     \E r \in {ApplySpec(resources, spec, inputs, checker)} :
       /\ resources' = r.resources
       /\ inputs' = r.inputs
       /\ err' = r.err
       /\ returned' = [log |-> r.log]
       /\ call' = [kind |-> "spec", spec |-> spec, checker |-> checker]
  /\ before' = [resources |-> resources, inputs |-> inputs]
  /\ steps' = steps + 1
  /\ UNCHANGED <<heap, held>>
  /\ UNCHANGED objects

NextApplySpec == CallApplySpec

SpecApplySpec == InitApplySpec /\ [][NextApplySpec]_vars

\* The containers a cell leads to, as the set of their addresses.
RECURSIVE Reach(_, _)
Reach(memory, cell) ==
  IF ~IsRef(cell) THEN {}
  ELSE LET cells == Cells(memory[cell.n])
       IN {cell.n} \cup UNION {Reach(memory, cells[i]) : i \in 1..Len(cells)}

kChanged == <<"c", "h", "a", "n", "g", "e", "d">>

\* A write into a container in place: m["changed"] = "!" or s[0] = "!".
Written(node) ==
  IF IsMap(node)
    THEN Map([k \in (DOMAIN node.m) \cup {kChanged} |->
                IF k = kChanged THEN Str(<<"!">>) ELSE node.m[k]])
    ELSE Arr([j \in 1..Len(node.a) |-> IF j = 1 THEN Str(<<"!">>) ELSE node.a[j]])

\* The resource is held as maps and slices in the heap.
InitShared ==
  /\ resources \in {<<d>> : d \in Docs}
  /\ inputs = InputsAddon
  /\ err = NoErr
  /\ call = NoCall
  /\ before = [resources |-> resources, inputs |-> inputs]
  /\ steps = 0
  /\ heap = Store(NoHeap, resources[1]).heap
  /\ held = [resource |-> Store(NoHeap, resources[1]).cell, value |-> Null]
  /\ returned = NoReturn
  /\ objects = NoObjects

\* The paths of the mergeShallow operations: the root, a member that is a
\* scalar or null, a mapping, a member of a mapping, a member below parents
\* that miss, the env of every worker, a place past an env, an env entry.
MergePaths ==
  {PathRoot, PathB, PathAnn, PathOwner, PathAbsent, PathWorkersEnv,
   PathWorkersEnvAppend, PathFirstEnv}

\* ApplyOperation(resources[1], {mergeShallow, path, value}, inputs, render)
\* with the value the caller built for it.
CallMergeShallow ==
  /\ steps < MaxSteps
  /\ call.kind # "write"
  /\ \E path \in MergePaths, value \in {ValueMap, ValueNested, ValueText} :
     \E stored \in {Store(heap, value)} :
     \E r \in {applyMergeShallowInHeap(stored.heap, held.resource, path, stored.cell)} :
       /\ heap' = r.heap
       /\ held' = [held EXCEPT !.value = stored.cell]
       /\ resources' = [resources EXCEPT ![1] = Read(r.heap, held.resource)]
       /\ err' = r.err
       /\ call' = [kind |-> "operation", i |-> 1,
                   operation |-> [op |-> "mergeShallow", path |-> Str(path), value |-> value]]
  /\ before' = [resources |-> resources, inputs |-> inputs]
  /\ steps' = steps + 1
  /\ UNCHANGED <<inputs, returned>>
  /\ UNCHANGED objects

\* After the call the caller writes into one of the containers of the value
\* or of the resource, in place.
WriteInPlace ==
  /\ call.kind = "operation"
  /\ \E n \in Reach(heap, held.value) \cup Reach(heap, held.resource) :
       /\ IF IsMap(heap[n]) THEN TRUE ELSE Len(heap[n].a) > 0
       /\ heap' = [heap EXCEPT ![n] = Written(heap[n])]
       /\ call' = [kind |-> "write", n |-> n, merge |-> call.operation,
                   value |-> Read(heap, held.value)]
  /\ resources' = [resources EXCEPT ![1] = Read(heap', held.resource)]
  /\ before' = [resources |-> resources, inputs |-> inputs]
  /\ UNCHANGED <<inputs, err, steps, held, returned>>
  /\ UNCHANGED objects

NextShared == CallMergeShallow \/ WriteInPlace

SpecShared == InitShared /\ [][NextShared]_vars

\* expandPaths on its own. The paths without a filter beyond those of the
\* operations: a key below a scalar, a key followed by an index in one
\* segment, brackets that hold no number or do not close, an index into a
\* mapping, the append marker alone and in brackets, a key below a string, a
\* negative index, an index into an empty sequence, a lone slash, an empty
\* segment, a path without the leading slash.
PathScalarChild == <<"/", "b", "/", "x">>
PathKeyThenIndex == <<"/", "c", "[", "0", "]", "/", "n", "a", "m", "e">>
PathBadIndex == <<"/", "c", "/", "[", "x", "]">>
PathUnclosed == <<"/", "c", "/", "[", "0">>
PathIndexOnMap == <<"/", "a", "/", "0">>
PathAppend == <<"/", "c", "/", "-">>
PathBracketDash == <<"/", "c", "[", "-", "]">>
PathThroughString == <<"/", "c", "/", "0", "/", "n", "a", "m", "e", "/", "x">>
PathNegative == <<"/", "c", "/", "-", "1">>
PathEmptyEnvEntry == <<"/", "c", "/", "1", "/", "e", "n", "v", "/", "0">>
PathSlash == <<"/">>
PathEmptySegment == <<"/", "a", "/", "/", "x">>
PathNoSlash == <<"a", "/", "x">>

ExpandPaths ==
  Paths \cup {PathScalarChild, PathKeyThenIndex, PathBadIndex, PathUnclosed, PathIndexOnMap,
                PathAppend, PathBracketDash, PathThroughString, PathNegative,
                PathEmptyEnvEntry, PathSlash, PathEmptySegment, PathNoSlash}

\* expandPaths(resources[i], path)
CallExpandPaths ==
  /\ steps < MaxSteps
  /\ \E i \in 1..Len(resources), path \in ExpandPaths :
     \E r \in {expandPaths(resources[i], path)} :
       /\ err' = r.err
       /\ returned' = [pointers |-> r.pointers]
       /\ call' = [kind |-> "expand", i |-> i, path |-> path]
  /\ before' = [resources |-> resources, inputs |-> inputs]
  /\ steps' = steps + 1
  /\ UNCHANGED <<resources, inputs, heap, held>>
  /\ UNCHANGED objects

NextExpand == CallExpandPaths

SpecExpand == Init /\ [][NextExpand]_vars

\* FindTargetResources on its own. A core-group Service named api, and a
\* resource whose kind is no string, that has no apiVersion and whose
\* metadata is no mapping.
DocCore ==
  Map(kApiVersion :> Str(<<"v", "1">>) @@ kKind :> Str(<<"S", "e", "r", "v", "i", "c", "e">>)
      @@ kMetadata :> Map(kName :> Str(<<"a", "p", "i">>)))
DocOdd == Map(kKind :> Bool(TRUE) @@ kMetadata :> Str(<<"a", "p", "i">>))

FindLists ==
  {<<DocApi, DocBare, DocWorker>>, <<DocWorker, DocCore, DocOdd, DocApi, DocCore>>, <<>>}

FindTargets ==
  [kind : {<<>>, <<"D", "e", "p", "l", "o", "y", "m", "e", "n", "t">>, <<"S", "e", "r", "v", "i", "c", "e">>},
   group : {<<>>, <<"a", "p", "p", "s">>},
   version : {<<>>, <<"v", "1">>},
   name : {<<>>, <<"a", "p", "i">>, <<"w", "o", "r", "k", "e", "r">>},
   where : {""}]

InitFind ==
  /\ resources \in FindLists
  /\ inputs = InputsEmpty
  /\ err = NoErr
  /\ call = NoCall
  /\ before = [resources |-> resources, inputs |-> inputs]
  /\ steps = 0
  /\ heap = NoHeap
  /\ held = NoneHeld
  /\ returned = NoReturn
  /\ objects = NoObjects

\* FindTargetResources(resources, target, nil)
CallFindTargetResources ==
  /\ steps < MaxSteps
  /\ \E target \in FindTargets :
       /\ returned' = [matches |-> FindTargetResources(resources, target)]
       /\ call' = [kind |-> "find", target |-> target]
  /\ err' = NoErr
  /\ before' = [resources |-> resources, inputs |-> inputs]
  /\ steps' = steps + 1
  /\ UNCHANGED <<resources, inputs, heap, held>>
  /\ UNCHANGED objects

NextFind == CallFindTargetResources

SpecFind == InitFind /\ [][NextFind]_vars

\* deepMerge on its own. The maps it is given: a nested one; one that meets
\* it in a mapping and adds a sequence; one that meets it with a scalar for
\* the mapping and a mapping for the scalar; two with keys of their own; the
\* empty map; nil.
MergePlain ==
  Map(<<"a">> :> Map(<<"x">> :> Str(<<"1">>) @@ <<"y">> :> Arr(<<Str(<<"1">>)>>))
      @@ <<"b">> :> Str(<<"3">>))
MergeNestedOver ==
  Map(<<"a">> :> Map(<<"x">> :> Str(<<"2">>) @@ <<"y">> :> Arr(<<Str(<<"7">>), Str(<<"8">>)>>)
                     @@ <<"z">> :> Map(<<"q">> :> Str(<<"1">>)))
      @@ <<"c">> :> Arr(<<Str(<<"9">>)>>))
MergeKindsOver ==
  Map(<<"a">> :> Str(<<"s">>) @@ <<"b">> :> Map(<<"k">> :> Str(<<"v">>)))
MergeOwnD == Map(<<"d">> :> Map(<<"e">> :> Str(<<"1">>)))
MergeOwnF == Map(<<"f">> :> Arr(<<Str(<<"1">>), Str(<<"2">>)>>))

MergeInputs ==
  {MergePlain, MergeNestedOver, MergeKindsOver, MergeOwnD, MergeOwnF, EmptyMap, Null}

InitDeepMerge ==
  /\ resources = <<>>
  /\ inputs = InputsEmpty
  /\ err = NoErr
  /\ call = NoCall
  /\ before = [resources |-> resources, inputs |-> inputs]
  /\ steps = 0
  /\ heap = NoHeap
  /\ held = NoneHeld
  /\ returned = NoReturn
  /\ objects = NoObjects

\* deepMerge(base, override)
CallDeepMerge ==
  /\ steps < MaxSteps
  /\ \E base \in MergeInputs, override \in MergeInputs :
       /\ returned' = [result |-> deepMerge(base, override)]
       /\ call' = [kind |-> "merge", base |-> base, override |-> override]
  /\ steps' = steps + 1
  /\ heap' = NoHeap
  /\ held' = NoneHeld
  /\ UNCHANGED <<resources, inputs, err, before>>
  /\ UNCHANGED objects

\* deepMerge(deepMerge(a, b), c) and deepMerge(a, deepMerge(b, c))
CallDeepMergeOfThree ==
  /\ steps < MaxSteps
  /\ \E a \in MergeInputs, b \in MergeInputs, c \in MergeInputs :
       /\ returned' = [left |-> deepMerge(deepMerge(a, b), c),
                       right |-> deepMerge(a, deepMerge(b, c))]
       /\ call' = [kind |-> "mergeOfThree", a |-> a, b |-> b, c |-> c]
  /\ steps' = steps + 1
  /\ heap' = NoHeap
  /\ held' = NoneHeld
  /\ UNCHANGED <<resources, inputs, err, before>>
  /\ UNCHANGED objects

\* deepMerge(base, override) on maps the caller holds: held.resource is the
\* base and held.value the override.
CallDeepMergeInHeap ==
  /\ steps < MaxSteps
  /\ \E base \in MergeInputs, override \in MergeInputs :
     \E b \in {Store(NoHeap, base)} :
     \E o \in {Store(b.heap, override)} :
     \E r \in {deepMergeInHeap(o.heap, b.cell, o.cell)} :
       /\ heap' = r.heap
       /\ held' = [resource |-> b.cell, value |-> o.cell]
       /\ returned' = [cell |-> r.cell]
       /\ call' = [kind |-> "mergeInHeap", base |-> base, override |-> override]
  /\ steps' = steps + 1
  /\ UNCHANGED <<resources, inputs, err, before>>
  /\ UNCHANGED objects

\* After the call the caller writes into one of the containers of the
\* result, in place.
WriteIntoMerged ==
  /\ call.kind = "mergeInHeap"
  /\ \E n \in Reach(heap, returned.cell) :
       /\ IF IsMap(heap[n]) THEN TRUE ELSE Len(heap[n].a) > 0
       /\ heap' = [heap EXCEPT ![n] = Written(heap[n])]
       /\ call' = [kind |-> "mergeWrite", n |-> n, base |-> call.base, override |-> call.override]
  /\ UNCHANGED <<resources, inputs, err, before, steps, held, returned>>
  /\ UNCHANGED objects

NextDeepMerge ==
  CallDeepMerge \/ CallDeepMergeOfThree \/ CallDeepMergeInHeap \/ WriteIntoMerged

SpecDeepMerge == InitDeepMerge /\ [][NextDeepMerge]_vars

\* The context builders on their own. Scalars are strings.
cReplicas == <<"r", "e", "p", "l", "i", "c", "a", "s">>
cCpu == <<"c", "p", "u">>
cMemory == <<"m", "e", "m", "o", "r", "y">>
cResources == <<"r", "e", "s", "o", "u", "r", "c", "e", "s">>
cLimit == <<"l", "i", "m", "i", "t">>
cRequest == <<"r", "e", "q", "u", "e", "s", "t">>
cBurst == <<"b", "u", "r", "s", "t">>
cZone == <<"z", "o", "n", "e">>

ParamsReplicas == Map(cReplicas :> Str(<<"5">>))
ParamsFull ==
  Map(cReplicas :> Str(<<"5">>) @@ cCpu :> Str(<<"2", "0", "0", "m">>)
      @@ cResources :> Map(cLimit :> Str(<<"1">>) @@ cRequest :> Str(<<"1">>)))
DeclaredParameters == {NoRaw, ParamsReplicas, ParamsFull, Str(<<"x">>)}

OverrideReplicas == Map(cReplicas :> Str(<<"7">>))
OverrideNested == Map(cCpu :> Str(<<"3", "0", "0", "m">>) @@ cResources :> Map(cRequest :> Str(<<"2">>)))
OverrideKind == Map(cResources :> Str(<<"n", "o", "n", "e">>))
EnvOverrides == {NoRaw, Null, OverrideReplicas, OverrideNested, OverrideKind, Str(<<"x">>)}

\* cpu, replicas and two fields of resources have defaults, memory has none.
SchemaParameters ==
  Map(cCpu :> Map(cDefault :> Str(<<"1", "0", "0", "m">>))
      @@ cMemory :> EmptyMap
      @@ cReplicas :> Map(cDefault :> Str(<<"1">>))
      @@ cResources :> Map(cProperties :> Map(cLimit :> Map(cDefault :> Str(<<"9">>))
                                               @@ cBurst :> Map(cDefault :> Str(<<"0">>)))))
SchemaEnvOverrides == Map(cZone :> Map(cDefault :> Str(<<"a">>)))
SchemaConflicting == Map(cCpu :> Map(cDefault :> Str(<<"1">>)))

TypeDefinitions ==
  {Null,
   [Parameters |-> NoRaw, EnvOverrides |-> NoRaw],
   [Parameters |-> SchemaParameters, EnvOverrides |-> NoRaw],
   [Parameters |-> SchemaParameters, EnvOverrides |-> SchemaEnvOverrides],
   [Parameters |-> SchemaParameters, EnvOverrides |-> SchemaConflicting]}

\* What else the input carries: nothing, or a workload, a namespace, an
\* environment name and additional metadata.
Bare ==
  [Workload |-> Null, Namespace |-> <<>>, Environment |-> <<>>, AdditionalMetadata |-> EmptyMap]
Dressed ==
  [Workload |-> [Name |-> <<"w">>], Namespace |-> <<"n", "s">>, Environment |-> <<"d", "e", "v">>,
   AdditionalMetadata |-> Map(kTeam :> Str(<<"p">>))]

ComponentContextInputs ==
  {Null}
    \cup {[Component |-> Null, ComponentTypeDefinition |-> td, EnvSettings |-> Null,
           Workload |-> Null, Environment |-> <<>>, AdditionalMetadata |-> EmptyMap]
          : td \in TypeDefinitions}
    \cup {[Component |-> [Name |-> <<"a", "p", "i">>, Namespace |-> d.Namespace, Parameters |-> p],
           ComponentTypeDefinition |-> td,
           EnvSettings |-> es,
           Workload |-> d.Workload,
           Environment |-> d.Environment,
           AdditionalMetadata |-> d.AdditionalMetadata]
          : p \in DeclaredParameters, td \in TypeDefinitions,
            es \in {Null} \cup {[Overrides |-> o] : o \in EnvOverrides},
            d \in {Bare, Dressed}}

Addons ==
  {Null,
   [Name |-> <<"p", "v", "c">>, Parameters |-> SchemaParameters, EnvOverrides |-> NoRaw],
   [Name |-> <<"p", "v", "c">>, Parameters |-> SchemaParameters, EnvOverrides |-> SchemaEnvOverrides],
   [Name |-> <<"p", "v", "c">>, Parameters |-> SchemaParameters, EnvOverrides |-> SchemaConflicting]}

\* EnvSettings of an addon: none, no overrides, overrides of another addon,
\* of another instance, and of this instance.
AddonEnvSettings ==
  {Null, [AddonOverrides |-> Null],
   [AddonOverrides |-> [of |-> (<<"h", "p", "a">> :> (<<"i", "1">> :> OverrideReplicas))]],
   [AddonOverrides |-> [of |-> (<<"p", "v", "c">> :> (<<"i", "2">> :> OverrideReplicas))]]}
    \cup {[AddonOverrides |-> [of |-> (<<"p", "v", "c">> :> (<<"i", "1">> :> o @@ <<"i", "2">> :> OverrideKind))]] : o \in EnvOverrides}

AddonContextInputs ==
  {Null}
    \cup {[Addon |-> a,
           Component |-> c,
           Instance |-> [InstanceID |-> <<"i", "1">>, Config |-> p],
           EnvSettings |-> es,
           Environment |-> <<"d", "e", "v">>,
           AdditionalMetadata |-> EmptyMap]
          : a \in Addons,
            c \in {Null, [Name |-> <<"a", "p", "i">>, Namespace |-> <<"n", "s">>]},
            p \in DeclaredParameters,
            es \in AddonEnvSettings}

\* Environment settings that carry component-level overrides too, and
\* overrides of other addons and instances beside those of this instance.
AddonEnvSettingsElsewhere ==
  {Null,
   [Overrides |-> OverrideNested, AddonOverrides |-> Null],
   [Overrides |-> OverrideKind,
    AddonOverrides |-> [of |-> (<<"h", "p", "a">> :> (<<"i", "1">> :> OverrideReplicas))]],
   [Overrides |-> NoRaw,
    AddonOverrides |-> [of |-> (<<"p", "v", "c">> :> (<<"i", "2">> :> OverrideNested))]]}
    \cup {[Overrides |-> OverrideReplicas,
           AddonOverrides |->
             [of |-> (<<"p", "v", "c">> :> (<<"i", "1">> :> o @@ <<"i", "2">> :> OverrideNested)
                      @@ <<"h", "p", "a">> :> (<<"i", "1">> :> OverrideKind))]]
          : o \in {OverrideReplicas, OverrideNested}}

\* The inputs BuildAddonContext is called with under two environment
\* settings.
AddonContextPairInputs ==
  {[Addon |-> a,
    Component |-> [Name |-> <<"a", "p", "i">>, Namespace |-> <<"n", "s">>],
    Instance |-> [InstanceID |-> <<"i", "1">>, Config |-> p],
    EnvSettings |-> es,
    Environment |-> <<"d", "e", "v">>,
    AdditionalMetadata |-> EmptyMap]
   : a \in Addons \ {Null}, p \in DeclaredParameters, es \in AddonEnvSettings}

InitContext ==
  /\ resources = <<>>
  /\ inputs = InputsEmpty
  /\ err = NoErr
  /\ call = NoCall
  /\ before = [resources |-> resources, inputs |-> inputs]
  /\ steps = 0
  /\ heap = NoHeap
  /\ held = NoneHeld
  /\ returned = NoReturn
  /\ objects = NoObjects

\* BuildComponentContext(input)
CallBuildComponentContext ==
  /\ steps < MaxSteps
  /\ \E input \in ComponentContextInputs :
     \E r \in {BuildComponentContext(input)} :
       /\ err' = r.err
       /\ returned' = [ctx |-> r.ctx]
       /\ call' = [kind |-> "componentContext", input |-> input]
  /\ steps' = steps + 1
  /\ UNCHANGED <<resources, inputs, before, heap, held>>
  /\ UNCHANGED objects

\* BuildAddonContext(input)
CallBuildAddonContext ==
  /\ steps < MaxSteps
  /\ \E input \in AddonContextInputs :
     \E r \in {BuildAddonContext(input)} :
       /\ err' = r.err
       /\ returned' = [ctx |-> r.ctx]
       /\ call' = [kind |-> "addonContext", input |-> input]
  /\ steps' = steps + 1
  /\ UNCHANGED <<resources, inputs, before, heap, held>>
  /\ UNCHANGED objects

\* BuildAddonContext(input), and beside it BuildAddonContext for the same
\* addon instance under other environment settings.
CallBuildAddonContextTwice ==
  /\ steps < MaxSteps
  /\ \E input \in AddonContextPairInputs, elsewhere \in AddonEnvSettingsElsewhere :
     \E r \in {BuildAddonContext(input)} :
     \E o \in {BuildAddonContext([input EXCEPT !.EnvSettings = elsewhere])} :
       /\ err' = r.err
       /\ returned' = [ctx |-> r.ctx, other |-> [err |-> o.err, ctx |-> o.ctx]]
       /\ call' = [kind |-> "addonContextTwice", input |-> input, elsewhere |-> elsewhere]
  /\ steps' = steps + 1
  /\ UNCHANGED <<resources, inputs, before, heap, held>>
  /\ UNCHANGED objects

NextContext == CallBuildComponentContext \/ CallBuildAddonContext \/ CallBuildAddonContextTwice

SpecContext == InitContext /\ [][NextContext]_vars

\* oc_merge on its own. The maps: empty, two that share the keys x and n
\* (n a nested map), one with a key of its own, each held both ways.
OcLeft == Map(<<"x">> :> Str(<<"1">>) @@ <<"n">> :> Map(<<"p">> :> Str(<<"1">>) @@ <<"q">> :> Str(<<"2">>)))
OcRight == Map(<<"x">> :> Str(<<"3">>) @@ <<"n">> :> Map(<<"p">> :> Str(<<"9">>)))
OcOwn == Map(<<"y">> :> Arr(<<Str(<<"2">>)>>))

\* The same map as a map[ref.Val]ref.Val, nested maps included.
RECURSIVE AsCel(_)
AsCel(x) == IF IsMap(x) THEN Val(CelMap([k \in DOMAIN x.m |-> AsCel(x.m[k])])) ELSE Val(x)

OcGoMaps == {EmptyMap, OcLeft, OcRight, OcOwn}
OcMaps == {Val(g) : g \in OcGoMaps} \cup {AsCel(g) : g \in OcGoMaps}

\* The value a ref.Val stands for in a template: its tree, whichever way it
\* is held.
RECURSIVE Plain(_)
Plain(x) ==
  CASE IsVal(x) -> Plain(x.v)
    [] IsMap(x) \/ IsCelMap(x) -> Map([k \in DOMAIN x.m |-> Plain(x.m[k])])
    [] IsArr(x) -> Arr([i \in 1..Len(x.a) |-> Plain(x.a[i])])
    [] OTHER -> x

InitOcMerge ==
  /\ resources = <<>>
  /\ inputs = InputsEmpty
  /\ err = NoErr
  /\ call = NoCall
  /\ before = [resources |-> resources, inputs |-> inputs]
  /\ steps = 0
  /\ heap = NoHeap
  /\ held = NoneHeld
  /\ returned = NoReturn
  /\ objects = NoObjects

\* oc_merge(lhs, rhs), and oc_merge(rhs, lhs) beside it.
CallOcMerge ==
  /\ steps < MaxSteps
  /\ \E lhs \in OcMaps, rhs \in OcMaps :
       /\ returned' = [result |-> Plain(mergeMapFunction(lhs, rhs)),
                       swapped |-> Plain(mergeMapFunction(rhs, lhs))]
       /\ call' = [kind |-> "ocMerge", lhs |-> Plain(lhs), rhs |-> Plain(rhs),
                   held |-> <<IsCelMap(lhs.v), IsCelMap(rhs.v)>>]
  /\ steps' = steps + 1
  /\ err' = NoErr
  /\ heap' = NoHeap
  /\ held' = NoneHeld
  /\ UNCHANGED <<resources, inputs, before>>
  /\ UNCHANGED objects

\* oc_merge(args...) through the macro.
CallOcMergeMacro ==
  /\ steps < MaxSteps
  /\ \E n \in 0..3 : \E args \in [1..n -> {Val(g) : g \in OcGoMaps}] :
     \E r \in {mergeMacro(args)} :
       /\ err' = r.err
       /\ returned' = [result |-> Plain(r.result)]
       /\ call' = [kind |-> "ocMergeMacro", args |-> [i \in 1..n |-> Plain(args[i])]]
  /\ steps' = steps + 1
  /\ heap' = NoHeap
  /\ held' = NoneHeld
  /\ UNCHANGED <<resources, inputs, before>>
  /\ UNCHANGED objects

\* oc_merge(lhs, rhs) on maps the caller holds: held.resource is lhs and
\* held.value is rhs.
CallOcMergeInHeap ==
  /\ steps < MaxSteps
  /\ \E lhs \in OcGoMaps, rhs \in OcGoMaps :
     \E l \in {Store(NoHeap, lhs)} :
     \E r \in {Store(l.heap, rhs)} :
     \E merged \in {mergeMapFunctionInHeap(r.heap, l.cell, r.cell)} :
       /\ heap' = merged.heap
       /\ held' = [resource |-> l.cell, value |-> r.cell]
       /\ returned' = [cell |-> merged.cell]
       /\ call' = [kind |-> "ocMergeInHeap", lhs |-> lhs, rhs |-> rhs]
  /\ steps' = steps + 1
  /\ err' = NoErr
  /\ UNCHANGED <<resources, inputs, before>>
  /\ UNCHANGED objects

NextOcMerge == CallOcMerge \/ CallOcMergeMacro \/ CallOcMergeInHeap

SpecOcMerge == InitOcMerge /\ [][NextOcMerge]_vars

\* ------------------------------------------------ EnvSettings reconciles

MaxReconciles == 3
MaxGeneration == 2

Rendered(apiVersion, kind, namespace, name) ==
  Map([k \in {"apiVersion", "kind", "metadata"} |->
         CASE k = "apiVersion" -> Str(apiVersion)
           [] k = "kind" -> Str(kind)
           [] OTHER -> Map([j \in {"namespace", "name"} |->
                              IF j = "name" THEN Str(name) ELSE Str(namespace)])])

SvcA == Rendered(<<"v", "1">>, <<"S", "v", "c">>, <<"n">>, <<"a">>)
SvcAElsewhere == Rendered(<<"v", "1">>, <<"S", "v", "c">>, <<"m">>, <<"a">>)
SvcANewer == Rendered(<<"v", "2">>, <<"S", "v", "c">>, <<"n">>, <<"a">>)
SvcALower == Rendered(<<"v", "1">>, <<"s", "v", "c">>, <<"n">>, <<"a">>)
SvcB == Rendered(<<"v", "1">>, <<"S", "v", "c">>, <<"n">>, <<"b">>)
JobA == Rendered(<<"v", "1">>, <<"J", "o", "b">>, <<"n">>, <<"a">>)
Nameless == Rendered(<<"v", "1">>, <<"S", "v", "c">>, <<"n">>, <<>>)
Kindless == Map("metadata" :> Map("name" :> Str(<<"a">>)))
ResourceZero == Rendered(<<"v", "1">>, <<"R", "e", "s", "o", "u", "r", "c", "e">>, <<"n">>, <<"0">>)
DashedKind == Rendered(<<"v", "1">>, <<"a", "-", "b">>, <<"n">>, <<"c">>)
DashedName == Rendered(<<"v", "1">>, <<"a">>, <<"n">>, <<"b", "-", "c">>)

RenderedResources ==
  {SvcA, SvcAElsewhere, SvcANewer, SvcALower, SvcB, JobA, Nameless, Kindless,
   ResourceZero, DashedKind, DashedName}

MaxRendered == 2

RenderedLists == UNION {[1..n -> RenderedResources] : n \in 0..MaxRendered}

\* What Pipeline.Render returns in the reconciles of the model.
RenderOutcomes == {RenderFailed, <<SvcA>>, <<SvcA, JobA>>}

ValidSnapshot ==
  [Resources |-> <<>>, Component |-> <<"c">>, Workload |-> <<"w">>,
   ProjectName |-> <<"p">>, ComponentName |-> <<"c">>]

Snapshots ==
  {ValidSnapshot,
   [ValidSnapshot EXCEPT !.Resources = Null],
   [ValidSnapshot EXCEPT !.Workload = <<>>]}

ForeignRelease == [Owner |-> OwnerOther, Resources |-> <<>>]

NewEnvSettings ==
  [Generation |-> 1, Status |-> [ObservedGeneration |-> 0, Ready |-> NoCondition]]

ReconcileFaults == {"none", "get", "snapshotGet", "releaseGet", "releaseWrite", "statusUpdate"}

InitEnvSettings ==
  /\ resources = <<>>
  /\ inputs = InputsEmpty
  /\ err = NoErr
  /\ call = NoCall
  /\ before = [resources |-> resources, inputs |-> inputs]
  /\ steps = 0
  /\ heap = NoHeap
  /\ held = NoneHeld
  /\ returned = NoReturn
  /\ \E snapshot \in Snapshots \cup {Null}, release \in {Null, ForeignRelease} :
       objects = [envSettings |-> NewEnvSettings, snapshot |-> snapshot, release |-> release]

\* One Reconcile of the EnvSettings, its deferred status update included.
ReconcileEnvSettings ==
  /\ steps < MaxReconciles
  /\ \E rendered \in RenderOutcomes, fault \in ReconcileFaults :
       IF fault = "get"
         THEN /\ err' = ErrGet
              /\ returned' = [reconcileRelease |-> NotReached, updated |-> FALSE]
              /\ call' = [kind |-> "reconcileEnvSettings", fault |-> fault, old |-> Null]
              /\ UNCHANGED objects
         ELSE \E body \in {ReconcileBody(objects.envSettings, objects.snapshot,
                                         objects.release, rendered, fault)} :
              \E done \in {DeferredStatusUpdate(objects.envSettings, body, fault)} :
                /\ err' = done.err
                /\ returned' = [reconcileRelease |-> body.reconcileRelease,
                                updated |-> done.updated]
                /\ call' = [kind |-> "reconcileEnvSettings", fault |-> fault,
                            old |-> objects.envSettings]
                /\ objects' = [objects EXCEPT !.envSettings = done.stored,
                                              !.release = body.release]
  /\ steps' = steps + 1
  /\ UNCHANGED <<resources, inputs, before, heap, held>>

\* Someone edits the EnvSettings' spec.
EditEnvSettings ==
  /\ steps < MaxReconciles
  /\ objects.envSettings.Generation < MaxGeneration
  /\ objects' = [objects EXCEPT !.envSettings.Generation = @ + 1]
  /\ call' = [kind |-> "editEnvSettings"]
  /\ steps' = steps + 1
  /\ UNCHANGED <<resources, inputs, err, before, heap, held, returned>>

\* The snapshot controller writes the ComponentEnvSnapshot.
PutSnapshot ==
  /\ steps < MaxReconciles
  /\ \E snapshot \in Snapshots :
       /\ snapshot # objects.snapshot
       /\ objects' = [objects EXCEPT !.snapshot = snapshot]
  /\ call' = [kind |-> "putSnapshot"]
  /\ steps' = steps + 1
  /\ UNCHANGED <<resources, inputs, err, before, heap, held, returned>>

NextEnvSettings == ReconcileEnvSettings \/ EditEnvSettings \/ PutSnapshot

SpecEnvSettings == InitEnvSettings /\ [][NextEnvSettings]_vars

InitResourceID ==
  /\ resources = <<>>
  /\ inputs = InputsEmpty
  /\ err = NoErr
  /\ call = NoCall
  /\ before = [resources |-> resources, inputs |-> inputs]
  /\ steps = 0
  /\ heap = NoHeap
  /\ held = NoneHeld
  /\ returned = NoReturn
  /\ objects = NoObjects

\* convertToReleaseResources on a list of rendered resources.
CallConvertToReleaseResources ==
  /\ steps < MaxSteps
  /\ \E rendered \in RenderedLists :
       /\ returned' = convertToReleaseResources(rendered)
       /\ call' = [kind |-> "convertToReleaseResources", rendered |-> rendered]
  /\ steps' = steps + 1
  /\ UNCHANGED <<resources, inputs, err, before, heap, held, objects>>

NextResourceID == CallConvertToReleaseResources

SpecResourceID == InitResourceID /\ [][NextResourceID]_vars

\* ---------------------------------------------------- Endpoint reconciles

NewEndpoint(labels) ==
  [Labels |-> labels, Deleting |-> FALSE, Finalizer |-> FALSE, Generation |-> 1,
   Status |-> [Ready |-> NoReadyCondition, Address |-> <<>>]]

EndpointFaults ==
  {"none", "get", "context", "patch", "getState", "write", "statusUpdate"}

PatchOutcomes == {"fails", "object", "objectAndStatus"}

InitEndpoint ==
  /\ resources = <<>>
  /\ inputs = InputsEmpty
  /\ err = NoErr
  /\ call = NoCall
  /\ before = [resources |-> resources, inputs |-> inputs]
  /\ steps = 0
  /\ heap = NoHeap
  /\ held = NoneHeld
  /\ returned = NoReturn
  /\ \E labels \in BOOLEAN, required \in BOOLEAN :
       objects = [endpoint |-> NewEndpoint(labels), route |-> FALSE, required |-> required]

\* One Reconcile of the Endpoint.
CallReconcileEndpoint ==
  /\ steps < MaxReconciles
  /\ \E fault \in EndpointFaults, patch \in PatchOutcomes :
     \E done \in {ReconcileEndpoint(objects, fault, patch)} :
       /\ err' = done.err
       /\ objects' = [objects EXCEPT !.endpoint = done.endpoint, !.route = done.route]
       /\ returned' = [events |-> done.events, statusUpdated |-> done.statusUpdated]
       /\ call' = [kind |-> "reconcileEndpoint", fault |-> fault,
                   old |-> IF fault = "get" THEN Null ELSE objects.endpoint,
                   route |-> objects.route]
  /\ steps' = steps + 1
  /\ UNCHANGED <<resources, inputs, before, heap, held>>

\* Someone deletes the Endpoint: the API server sets the deletion timestamp,
\* and removes the object at once when it has no finalizer.
DeleteEndpoint ==
  /\ steps < MaxReconciles
  /\ objects.endpoint # Null
  /\ ~objects.endpoint.Deleting
  /\ objects' = [objects EXCEPT !.endpoint = Stored([@ EXCEPT !.Deleting = TRUE])]
  /\ call' = [kind |-> "deleteEndpoint"]
  /\ steps' = steps + 1
  /\ UNCHANGED <<resources, inputs, err, before, heap, held, returned>>

\* Someone edits the Endpoint's spec.
EditEndpoint ==
  /\ steps < MaxReconciles
  /\ objects.endpoint # Null
  /\ objects.endpoint.Generation < MaxGeneration
  /\ objects' = [objects EXCEPT !.endpoint.Generation = @ + 1]
  /\ call' = [kind |-> "editEndpoint"]
  /\ steps' = steps + 1
  /\ UNCHANGED <<resources, inputs, err, before, heap, held, returned>>

NextEndpoint == CallReconcileEndpoint \/ DeleteEndpoint \/ EditEndpoint

SpecEndpoint == InitEndpoint /\ [][NextEndpoint]_vars

\* ------------------------------------------------------------------ claims

\* The resource the last ApplyOperation call was given, before and after it.
Old == before.resources[call.i]
New == resources[call.i]

\* The last call was ApplyOperation with this op and path and a literal value.
Called(op, path) ==
  /\ call.kind = "operation"
  /\ call.operation.op = op
  /\ call.operation.path = Str(path)
  /\ ~IsExpr(call.operation.value)

\* The member of a mapping under key, Null when node is no mapping or has no
\* such key.
Member(node, key) == IF HasKey(node, key) THEN node.m[key] ELSE Null

\* C1: mergeShallow with path "" overlays the value's top-level keys onto the
\* resource itself: the call succeeds, every key of the value holds the
\* value's entry, every other key of the resource is unchanged, and no key
\* appears that is neither an old key of the resource nor a key of the value
\* ({a:{x:1,y:2},b:3} with {a:{z:3}} gives {a:{z:3},b:3}).
C1_RootMergeOverlaysResource ==
  (Called("mergeShallow", PathRoot) /\ IsMap(call.operation.value)) =>
    LET value == call.operation.value IN
    /\ err = NoErr
    /\ Keys(New) = Keys(Old) \cup Keys(value)
    /\ \A k \in Keys(value) : Member(New, k) = value.m[k]
    /\ \A k \in Keys(Old) \ Keys(value) : Member(New, k) = Old.m[k]
    /\ (Old = DocPlain /\ value = ValueMap) =>
         New = Map(<<"a">> :> Map(<<"z">> :> Str(<<"3">>)) @@ <<"b">> :> Str(<<"3">>))

\* The annotations mapping of a resource (/metadata/ann).
Annotations(doc) == Member(Member(doc, kMetadata), kAnn)

\* C2: every path segment is RFC 6901-unescaped before it is resolved: on a
\* resource with a mapping at /metadata/ann, add at /metadata/ann/a~1b sets
\* the key "a/b" to the value and creates no key named "a~1b"; replace sets
\* an existing "a/b", and remove deletes it.
C2_SegmentsAreUnescaped ==
  /\ (Called("add", PathEscaped) /\ IsMap(Annotations(Old))) =>
       /\ err = NoErr
       /\ Member(Annotations(New), kSlashKey) = call.operation.value
       /\ ~HasKey(Annotations(New), kTildeKey)
  /\ (Called("replace", PathEscaped) /\ HasKey(Annotations(Old), kSlashKey)) =>
       /\ err = NoErr
       /\ Member(Annotations(New), kSlashKey) = call.operation.value
  /\ (call.kind = "operation" /\ call.operation.op = "remove"
        /\ call.operation.path = Str(PathEscaped) /\ HasKey(Annotations(Old), kSlashKey)) =>
       /\ err = NoErr
       /\ ~HasKey(Annotations(New), kSlashKey)

\* C3: move and copy follow RFC 6902: with a destination whose parent exists
\* (/metadata/ann/owner in a resource that has the /metadata/ann mapping, /a
\* at the root) the call succeeds.
C3_MoveAndCopySucceed ==
  (/\ call.kind = "operation"
   /\ call.operation.op \in {"move", "copy"}
   /\ \/ call.operation.path = Str(PathOwner) /\ IsMap(Annotations(Old))
      \/ call.operation.path = Str(PathA)) =>
    err = NoErr

\* C4: with a non-nil isMissingData predicate, a missing-data error from
\* rendering an operation's path or value makes ApplySpec skip that target
\* and go on: the only missing-data error ApplySpec may then return is the
\* one of the forEach expression itself, and with the addons <<AddonNoKey,
\* AddonWorker>> (the first has no key to annotate with) the iteration for
\* the second addon still annotates every resource.
C4_OperationMissingDataSkipsTarget ==
  /\ (call.kind = "spec" /\ call.checker # "nil" /\ IsMissingData(call.checker, err)) =>
       err = Wrap("forEach", ErrMissingData)
  /\ (/\ call.kind = "spec" /\ call.checker # "nil"
      /\ before.inputs = InputsBound
      /\ call.spec.forEach = "addons" /\ call.spec.var = "addon"
      /\ call.spec.target = TargetAll
      /\ call.spec.operations = <<OpAnnotate>>) =>
       /\ err = NoErr
       /\ \A i \in 1..Len(resources) :
            Member(Annotations(resources[i]), kTeam) = Str(<<"o">>)

\* A resource without metadata.name: target.where "matchName" (resource name
\* = addon name) is missing data for it, whatever the item.
Unnamed(doc) == Field(Field(doc, kMetadata).value, kName).err # NoErr

\* The entries of a list of resources that have a name, in order.
Named(list) == SelectSeq(list, LAMBDA doc : ~Unnamed(doc))

\* The call gets as far as evaluating target.where: there are operations, a
\* target, and, with forEach, at least one item.
WhereIsEvaluated ==
  /\ call.spec.operations # <<>>
  /\ FindTargetResources(before.resources, call.spec.target) # <<>>
  /\ call.spec.forEach # "" =>
       LET items == Render(Expr(call.spec.forEach), before.inputs) IN
       items.err = NoErr /\ IsArr(items.value) /\ items.value.a # <<>>

\* C5: with a non-nil isMissingData predicate, a resource whose target.where
\* evaluation is missing data is a non-match: it is left unchanged, the call
\* returns no where error, and the call returns what it returns, and patches
\* the other resources as it patches them, when that resource is not in the
\* list at all. With a nil predicate the missing-data error of where is
\* returned, and an error the predicate rejects is returned as well.
C5_WhereMissingDataIsNonMatch ==
  /\ (call.kind = "spec" /\ call.spec.target.where = "matchName" /\ call.checker # "nil") =>
       LET without == ApplySpec(Named(before.resources), call.spec, before.inputs, call.checker) IN
       /\ err # Wrap("where", ErrMissingData)
       /\ \A i \in 1..Len(resources) :
            Unnamed(before.resources[i]) => resources[i] = before.resources[i]
       /\ err = without.err
       /\ Named(resources) = without.resources
  /\ (/\ call.kind = "spec" /\ call.spec.target.where = "matchName" /\ call.checker = "nil"
      /\ WhereIsEvaluated
      /\ \E i \in 1..Len(before.resources) :
           /\ Unnamed(before.resources[i])
           /\ i \in {FindTargetResources(before.resources, call.spec.target)[j] :
                       j \in 1..Len(FindTargetResources(before.resources, call.spec.target))}) =>
       /\ err # NoErr
       /\ (before.inputs = InputsList /\ call.spec.operations = <<OpAnnotate>>) =>
            err = Wrap("where", ErrMissingData)
  /\ (call.kind = "spec" /\ call.spec.target.where = "fail" /\ WhereIsEvaluated) =>
       err = Wrap("where", ErrEvaluation)

\* A call with the predicate skipped the nameless second resource, returned
\* no error and went on to annotate the third one.
C5_Witness ==
  /\ call.kind = "spec" /\ call.spec.target.where = "matchName" /\ call.checker = "isMissing"
  /\ err = NoErr
  /\ Unnamed(before.resources[2]) /\ resources[2] = before.resources[2]
  /\ resources[3] # before.resources[3]

\* C6: on every exit of ApplySpec the inputs map holds the keys and bindings
\* it held before the call: the forEach variable and "resource" are restored
\* when they were bound and absent when they were not.
C6_InputsRestored == call.kind = "spec" => inputs = before.inputs

\* A call that bound "addon" and "resource" over the caller's bindings and
\* left through an operation error; and the same for a where error.
C6_Witness ==
  /\ call.kind = "spec" /\ call.spec.forEach = "addons" /\ call.spec.var = "addon"
  /\ before.inputs = InputsBound
  /\ call.spec.target.where = "matchName"
  /\ err = Wrap("value", ErrMissingData)
  /\ inputs["addon"] = AddonWorker

\* What a location holds: the node the segments lead to, Absent when a step
\* is a missing key, an index outside the array or a step into a scalar.
Absent == [t |-> "absent"]

RECURSIVE At(_, _)
At(node, segs) ==
  IF segs = <<>> THEN node
  ELSE IF IsMap(node) THEN
    (IF segs[1] \in Keys(node) THEN At(node.m[segs[1]], Tail(segs)) ELSE Absent)
  ELSE IF IsArr(node) THEN
    (IF Atoi(segs[1]).ok /\ Atoi(segs[1]).n >= 0 /\ Atoi(segs[1]).n < Len(node.a)
       THEN At(node.a[Atoi(segs[1]).n + 1], Tail(segs))
       ELSE Absent)
  ELSE Absent

\* The last call was ApplyOperation with op mergeShallow, a literal path and
\* a value that renders to a mapping; MergeValue is that mapping and
\* MergeLocations the locations the path stands for in the resource.
MergeCall ==
  /\ call.kind = "operation"
  /\ call.operation.op = "mergeShallow"
  /\ ~IsExpr(call.operation.path)
  /\ Render(call.operation.value, before.inputs).err = NoErr
  /\ IsMap(Render(call.operation.value, before.inputs).value)
  /\ expandPaths(Old, call.operation.path.s).err = NoErr

MergeValue == Render(call.operation.value, before.inputs).value

MergeLocations ==
  LET pointers == expandPaths(Old, call.operation.path.s).pointers IN
  [i \in 1..Len(pointers) |-> splitPointer(pointers[i])]

\* A mapping with the keys of overlay laid over it.
Overlaid(target, overlay) ==
  Map([k \in Keys(target) \cup Keys(overlay) |->
         IF k \in Keys(overlay) THEN overlay.m[k] ELSE target.m[k]])

\* The document with the mapping at each of the locations overlaid.
RECURSIVE OverlaidAt(_, _, _)
OverlaidAt(doc, locations, overlay) ==
  IF locations = <<>> THEN doc
  ELSE OverlaidAt(UpdateAt(doc, locations[1], Overlaid(At(doc, locations[1]), overlay)),
                  Tail(locations), overlay)

\* C7: mergeShallow on a location that holds a mapping is a key-level
\* overlay: the call succeeds, every key of the value holds the value's
\* entry afterwards (a nested mapping of the target is replaced whole), every
\* other key of the target mapping keeps its value, and nothing outside the
\* target location changes.
C7_MergeShallowIsKeyOverlay ==
  (/\ MergeCall
   /\ Len(MergeLocations) > 0
   /\ \A i \in 1..Len(MergeLocations) : IsMap(At(Old, MergeLocations[i]))) =>
    /\ err = NoErr
    /\ \A i \in 1..Len(MergeLocations) :
         LET target == At(Old, MergeLocations[i])
             merged == At(New, MergeLocations[i])
         IN /\ IsMap(merged)
            /\ \A k \in Keys(MergeValue) : Member(merged, k) = MergeValue.m[k]
            /\ \A k \in Keys(target) \ Keys(MergeValue) : Member(merged, k) = target.m[k]
            /\ Keys(merged) = Keys(target) \cup Keys(MergeValue)
    /\ New = OverlaidAt(Old, MergeLocations, MergeValue)

\* No segment is an array index or the append marker.
RECURSIVE AllKeys(_)
AllKeys(segs) ==
  segs = <<>> \/ (segs[1] # <<"-">> /\ ~Atoi(segs[1]).ok /\ AllKeys(Tail(segs)))

\* The location can be reached or made: every step goes through a mapping
\* that is there, through an element that an array holds, or, below a member
\* that is absent or null, through mappings that are yet to be made.
RECURSIVE Reachable(_, _)
Reachable(node, segs) ==
  IF segs = <<>> THEN TRUE
  ELSE IF IsMap(node) THEN
    (IF segs[1] \in Keys(node) /\ ~IsNull(node.m[segs[1]])
       THEN Reachable(node.m[segs[1]], Tail(segs))
       ELSE AllKeys(Tail(segs)))
  ELSE IF IsArr(node) THEN
    /\ Atoi(segs[1]).ok /\ Atoi(segs[1]).n >= 0 /\ Atoi(segs[1]).n < Len(node.a)
    /\ Reachable(node.a[Atoi(segs[1]).n + 1], Tail(segs))
  ELSE FALSE

\* The document with the location set to new, the mappings that miss on the
\* way made.
RECURSIVE SetAt(_, _, _)
SetAt(node, segs, new) ==
  IF segs = <<>> THEN new
  ELSE IF IsMap(node) THEN MapSet(node, segs[1], SetAt(Member(node, segs[1]), Tail(segs), new))
  ELSE IF IsArr(node) THEN
    ArrSet(node, Atoi(segs[1]).n, SetAt(node.a[Atoi(segs[1]).n + 1], Tail(segs), new))
  ELSE Map(segs[1] :> SetAt(Null, Tail(segs), new))

RECURSIVE SetAtAll(_, _, _)
SetAtAll(doc, locations, new) ==
  IF locations = <<>> THEN doc
  ELSE SetAtAll(SetAt(doc, locations[1], new), Tail(locations), new)

\* The containers met on the way through everything a cell leads to, each
\* as often as it is met.
RECURSIVE Met(_, _)
RECURSIVE MetAll(_, _)
Met(memory, cell) ==
  IF ~IsRef(cell) THEN <<>> ELSE <<cell.n>> \o MetAll(memory, Cells(memory[cell.n]))
MetAll(memory, cells) ==
  IF cells = <<>> THEN <<>> ELSE Met(memory, cells[1]) \o MetAll(memory, Tail(cells))

\* No map or slice is held by both the resource and the value, none is held
\* twice by the resource, a write into the value has left the resource as it
\* was and a write into the resource has left the value as it was.
NothingShared ==
  /\ Reach(heap, held.resource) \cap Reach(heap, held.value) = {}
  /\ LET met == Met(heap, held.resource) IN
     \A i, j \in 1..Len(met) : met[i] = met[j] => i = j
  /\ call.kind = "write" =>
       IF call.n \in Reach(heap, held.value)
         THEN resources = before.resources
         ELSE Read(heap, held.value) = call.value

IsWorker(element) == HasKey(element, kRole) /\ Sprintf(element.m[kRole]) = <<"w">>

\* The containers of a resource (/c) and the env of one of them, empty when
\* it has none.
Containers(doc) == Member(doc, kContainers)
EnvOf(element) == IF IsArr(Member(element, kEnv)) THEN element.m[kEnv].a ELSE <<>>

\* Every worker can take an env entry: its env is a sequence, or null or
\* absent, in which case add makes it.
WorkersTakeEnv(doc) ==
  /\ IsArr(Containers(doc))
  /\ \A i \in 1..Len(Containers(doc).a) :
       LET element == Containers(doc).a[i] IN
       IsWorker(element) => IsArr(Member(element, kEnv)) \/ IsNull(Member(element, kEnv))

\* C9: add with a path that holds an array filter followed by further
\* segments is applied once to every element the filter matches and to no
\* other: with /c/[?(@.role=='w')]/env/- every worker (whose env is a
\* sequence or is yet to be made) gains the value as one new last env entry,
\* with /c/[?(@.role=='w')]/env every worker's env becomes the value, and the
\* containers with another role or without role, like the rest of the
\* resource, are unchanged.
C9_FilterFansOutToEveryMatch ==
  /\ (Called("add", PathWorkersEnvAppend) /\ WorkersTakeEnv(Old)) =>
       /\ err = NoErr
       /\ New = MapSet(Old, kContainers,
                       Arr([i \in 1..Len(Containers(Old).a) |->
                              LET element == Containers(Old).a[i] IN
                              IF IsWorker(element)
                                THEN MapSet(element, kEnv,
                                            Arr(Append(EnvOf(element), call.operation.value)))
                                ELSE element]))
  /\ (Called("add", PathWorkersEnv) /\ IsArr(Containers(Old))) =>
       /\ err = NoErr
       /\ New = MapSet(Old, kContainers,
                       Arr([i \in 1..Len(Containers(Old).a) |->
                              LET element == Containers(Old).a[i] IN
                              IF IsWorker(element)
                                THEN MapSet(element, kEnv, call.operation.value)
                                ELSE element]))

\* An add through the filter on a resource with two workers, one of them
\* without env, a container with another role and one without role.
C9_Witness ==
  /\ Called("add", PathWorkersEnvAppend)
  /\ IsArr(Containers(Old))
  /\ \E i, j, k, l \in 1..Len(Containers(Old).a) :
       /\ i # j
       /\ IsWorker(Containers(Old).a[i]) /\ HasKey(Containers(Old).a[i], kEnv)
       /\ IsWorker(Containers(Old).a[j]) /\ ~HasKey(Containers(Old).a[j], kEnv)
       /\ HasKey(Containers(Old).a[k], kRole) /\ ~IsWorker(Containers(Old).a[k])
       /\ ~HasKey(Containers(Old).a[l], kRole)
       /\ Len(EnvOf(Containers(New).a[i])) = Len(EnvOf(Containers(Old).a[i])) + 1
       /\ EnvOf(Containers(New).a[j]) = <<call.operation.value>>
  /\ err = NoErr

\* The call gets as far as expanding the path: path and value render, and
\* the value mergeShallow is given is a mapping.
ExpansionReached ==
  /\ call.kind = "operation"
  /\ ToLower(call.operation.op) \in {"add", "replace", "remove", "test", "mergeshallow"}
  /\ ~IsExpr(call.operation.path)
  /\ call.operation.op # opRemove => Render(call.operation.value, before.inputs).err = NoErr
  /\ ToLower(call.operation.op) = "mergeshallow" =>
       IsMap(Render(call.operation.value, before.inputs).value)

\* The path of the call holds a filter that has nothing to select: no
\* container has the role q, /volumes is missing, /metadata is a mapping, or
\* the env of the first container is empty.
FilterFindsNothing ==
  \/ call.operation.path = Str(PathNoMatch) /\ IsArr(Containers(Old))
  \/ call.operation.path = Str(PathFilterMissing) /\ ~HasKey(Old, <<"v", "o", "l", "u", "m", "e", "s">>)
  \/ call.operation.path = Str(PathFilterNotArray) /\ IsMap(Member(Old, kMetadata))
  \/ call.operation.path = Str(PathEnvFilter) /\ At(Old, <<kContainers, <<"0">>, kEnv>>) = EmptyArr

\* C10: when the expansion of the path yields no location (a filter that
\* matches no element, or one applied to an empty, a missing or a non-array
\* value, each of which yields none), add, replace, remove, test and
\* mergeShallow return no error and leave the resource unchanged.
C10_NoLocationIsNoOp ==
  /\ (ExpansionReached /\ FilterFindsNothing) =>
       /\ expandPaths(Old, call.operation.path.s).err = NoErr
       /\ expandPaths(Old, call.operation.path.s).pointers = <<>>
  /\ (/\ ExpansionReached
      /\ expandPaths(Old, call.operation.path.s).err = NoErr
      /\ expandPaths(Old, call.operation.path.s).pointers = <<>>) =>
       err = NoErr /\ New = Old

\* A replace whose filter found no element to match, or was applied to a
\* member that is missing, or was applied to a mapping.
C10_Witness ==
  /\ ExpansionReached
  /\ expandPaths(Old, call.operation.path.s).pointers = <<>>
  /\ call.operation.op = "replace"
  /\ FilterFindsNothing

\* ------------------------------------------------------ claims on expandPaths

\* The path holds a filter segment: a bracket that opens with "?".
HasFilterSegment(path) == \E i \in 1..(Len(path) - 1) : path[i] = "[" /\ path[i + 1] = "?"

\* The errors of path expansion other than the index out of bounds: a key
\* applied to a value that is no mapping and not null, an index applied to a
\* value that is no sequence, brackets without a number, an open bracket.
ExpansionTypeErrors ==
  {"path segment expects an object", "path segment expects an array",
   "unsupported array index", "unclosed bracket segment"}

\* C11, as stated: for every resource and every path without a filter
\* segment, expandPaths returns exactly one JSON pointer or fails with an
\* array-index-out-of-bounds error.
C11_OnePointerOrOutOfBounds ==
  (call.kind = "expand" /\ ~HasFilterSegment(call.path)) =>
    \/ err = NoErr /\ Len(returned.pointers) = 1
    \/ err = "array index out of bounds"

\* C11, amended: for every resource and every path without a filter segment,
\* expandPaths returns exactly one JSON pointer, or it fails and returns no
\* pointer, the failure being an index out of bounds, a key applied to a
\* value that is neither a mapping nor null, an index applied to a value that
\* is no sequence, or a bracket that does not close or holds no number. It
\* never returns without error and with no pointer or with several.
C11_OnePointerOrError ==
  (call.kind = "expand" /\ ~HasFilterSegment(call.path)) =>
    \/ err = NoErr /\ Len(returned.pointers) = 1
    \/ /\ err \in {"array index out of bounds"} \cup ExpansionTypeErrors
       /\ returned.pointers = <<>>

\* The path to the first env entry of the first container, expanded on the
\* resource that has one, gives that one pointer.
C11_Witness ==
  /\ call.kind = "expand"
  /\ call.path = PathFirstEnv
  /\ ~HasFilterSegment(call.path)
  /\ err = NoErr
  /\ returned.pointers = <<PathFirstEnv>>

\* --------------------------------------------------- claims on auto-creation

\* The segments of the path of the last call, a path of plain segments: none
\* is empty and none holds a bracket or an escape.
CallSegments == splitRawPath(call.operation.path.s)

PlainPath ==
  /\ call.kind = "operation"
  /\ ~IsExpr(call.operation.path)
  /\ CallSegments # <<>>
  /\ \A i \in 1..Len(CallSegments) :
       /\ CallSegments[i] # <<>>
       /\ \A j \in 1..Len(CallSegments[i]) : CallSegments[i][j] \notin {"[", "~"}

\* The parent segments at which the resource holds nothing or null while
\* everything before is a mapping.
MissingParents(doc) ==
  {i \in 1..(Len(CallSegments) - 1) :
     /\ At(doc, SubSeq(CallSegments, 1, i)) \in {Absent, Null}
     /\ \A j \in 0..(i - 1) : IsMap(At(doc, SubSeq(CallSegments, 1, j)))}

IsKeySegment(seg) == seg # <<"-">> /\ ~Atoi(seg).ok

\* What add is to leave behind: the value under the last key, or as the new
\* last element where the last segment is "-", below mappings made where
\* there were none.
RECURSIVE Added(_, _, _)
Added(node, segs, v) ==
  IF segs = <<>> THEN v
  ELSE IF segs = << <<"-">> >> THEN Arr((IF IsArr(node) THEN node.a ELSE <<>>) \o <<v>>)
  ELSE MapSet(IF IsMap(node) THEN node ELSE EmptyMap, segs[1],
              Added(Member(node, segs[1]), Tail(segs), v))

\* C12: an add whose path passes through parents that are absent or null
\* makes the missing containers first, a mapping where the following segment
\* is a key and a sequence where it is "-", and then adds the value; where
\* the segment after a missing parent is a numeric index nothing is made and
\* the call returns an error.
C12_AddCreatesMissingParents ==
  /\ (/\ PlainPath
      /\ Called("add", call.operation.path.s)
      /\ \E i \in MissingParents(Old) :
           /\ \A j \in (i + 1)..(Len(CallSegments) - 1) : IsKeySegment(CallSegments[j])
           /\ ~Atoi(CallSegments[Len(CallSegments)]).ok) =>
       /\ err = NoErr
       /\ New = Added(Old, CallSegments, call.operation.value)
  /\ (/\ PlainPath
      /\ Called("add", call.operation.path.s)
      /\ \E i \in MissingParents(Old) : Atoi(CallSegments[i + 1]).ok) =>
       /\ err # NoErr
       /\ New = Old

\* add /x/y/- on {} has left {x: {y: [value]}}.
C12_Witness ==
  /\ Called("add", PathNewAppend)
  /\ Old = DocEmpty
  /\ MissingParents(Old) = {1}
  /\ err = NoErr
  /\ New = Map(<<"x">> :> Map(<<"y">> :> Arr(<<call.operation.value>>)))

\* ------------------------------------------------------------ claims on test

\* The last call was ApplyOperation with op test, a literal value and a
\* literal path without brackets.
TestCall ==
  /\ call.kind = "operation"
  /\ call.operation.op = "test"
  /\ ~IsExpr(call.operation.path)
  /\ ~IsExpr(call.operation.value)
  /\ \A j \in 1..Len(call.operation.path.s) : call.operation.path.s[j] # "["

\* The value the resource holds at the path of the call, "~1" in a segment
\* standing for "/" and "~0" for "~"; Absent when there is none.
TestedValue ==
  LET raw == splitRawPath(call.operation.path.s) IN
  At(Old, [i \in 1..Len(raw) |-> unescapePointerSegment(raw[i])])

\* C13: ApplyOperation with op test returns an error when the value at the
\* path differs from the operation's value and nil when the two are equal,
\* and leaves the content of the resource as it was in both cases.
C13_TestComparesWithoutChange ==
  TestCall =>
    /\ New = Old
    /\ (err = NoErr) <=> (TestedValue = call.operation.value)

\* ------------------------------------------------- claims on FindTargetResources

\* The two parts of an apiVersion: what stands before the first "/" and what
\* stands after it, the whole being the version where there is no "/".
ApiParts(resource) ==
  LET gv == Member(resource, kApiVersion)
      s == IF gv.t = "str" THEN gv.s ELSE <<>>
      slashes == {i \in 1..Len(s) : s[i] = "/"}
  IN IF slashes = {} THEN [group |-> <<>>, version |-> s]
     ELSE LET i == CHOOSE i \in slashes : \A j \in slashes : i <= j
          IN [group |-> SubSeq(s, 1, i - 1), version |-> SubSeq(s, i + 1, Len(s))]

\* The resource satisfies every field of the target that is not empty.
Satisfies(resource, target) ==
  /\ target.kind # <<>> => Member(resource, kKind) = Str(target.kind)
  /\ target.group # <<>> => ApiParts(resource).group = target.group
  /\ target.version # <<>> => ApiParts(resource).version = target.version
  /\ target.name # <<>> => Member(Member(resource, kMetadata), kName) = Str(target.name)

\* C14: FindTargetResources returns, in the order of the list, exactly the
\* resources that satisfy every non-empty field of the target (kind, the
\* group and the version of apiVersion, metadata.name); a target whose fields
\* are all empty returns the whole list.
C14_FindReturnsMatchesInOrder ==
  call.kind = "find" =>
    /\ \A k \in 1..(Len(returned.matches) - 1) : returned.matches[k] < returned.matches[k + 1]
    /\ {returned.matches[k] : k \in 1..Len(returned.matches)}
         = {i \in 1..Len(resources) : Satisfies(resources[i], call.target)}
    /\ (call.target.kind = <<>> /\ call.target.group = <<>> /\ call.target.version = <<>>
          /\ call.target.name = <<>>) =>
         returned.matches = [i \in 1..Len(resources) |-> i]
    /\ resources = before.resources

\* The apps/v1 Deployments of a list of five: the first and the fourth, the
\* core Services and the resource without an apiVersion left out.
C14_Witness ==
  /\ call.kind = "find"
  /\ call.target.kind = <<"D", "e", "p", "l", "o", "y", "m", "e", "n", "t">>
  /\ call.target.group = <<"a", "p", "p", "s">>
  /\ call.target.version = <<"v", "1">>
  /\ call.target.name = <<>>
  /\ Len(resources) = 5
  /\ ApiParts(resources[2]) = [group |-> <<>>, version |-> <<"v", "1">>]
  /\ ApiParts(resources[1]) = [group |-> <<"a", "p", "p", "s">>, version |-> <<"v", "1">>]
  /\ returned.matches = <<1, 4>>

\* -------------------------------------------------------- claims on ApplySpec

\* The last call was ApplySpec with a spec that has operations.
SpecCall == call.kind = "spec" /\ Len(call.spec.operations) > 0

\* What the forEach expression of the call evaluates to, and the name of
\* the loop variable.
ForEachValue == Render(Expr(call.spec.forEach), before.inputs)
LoopVar == IF call.spec.var = "" THEN "item" ELSE call.spec.var

\* The positions of the resources the target selects by kind, group,
\* version and name, in the order of the list.
Candidates ==
  SelectSeq([i \in 1..Len(before.resources) |-> i],
            LAMBDA i : Satisfies(before.resources[i], call.spec.target))

\* What target.where evaluates to for a resource under the bindings given,
\* with resource bound to it.
WhereValue(bindings, t) ==
  Render(Expr(call.spec.target.where), Bind(bindings, "resource", before.resources[t]))

\* target.where is not set or evaluates to true.
WhereHolds(bindings, t) ==
  \/ call.spec.target.where = ""
  \/ WhereValue(bindings, t).err = NoErr /\ WhereValue(bindings, t).value = Bool(TRUE)

RECURSIVE Concat(_)
Concat(seqs) == IF seqs = <<>> THEN <<>> ELSE seqs[1] \o Concat(Tail(seqs))

IsPrefix(a, b) == Len(a) <= Len(b) /\ a = SubSeq(b, 1, Len(a))

\* The operations on every candidate for which where holds, candidate by
\* candidate and for each in declared order.
TargetsInOrder(bindings) ==
  Concat([c \in 1..Len(Candidates) |->
            IF WhereHolds(bindings, Candidates[c])
              THEN AtTarget(Candidates[c], call.spec.operations)
              ELSE <<>>])

\* All (item, target, operation) triples in lexicographic order of the three
\* positions, the pairs for which where does not hold left out; without
\* forEach the (target, operation) pairs.
AllInOrder ==
  IF call.spec.forEach = "" THEN TargetsInOrder(before.inputs)
  ELSE Concat([i \in 1..Len(ForEachValue.value.a) |->
                 ForItem(ForEachValue.value.a[i],
                         TargetsInOrder(Bind(before.inputs, LoopVar, ForEachValue.value.a[i])))])

ForEachIsList ==
  call.spec.forEach # "" => (ForEachValue.err = NoErr /\ IsArr(ForEachValue.value))

\* C15: ApplySpec runs the operations in a fixed order: the forEach items in
\* list order, within an item the targets in the order of the resource list,
\* within a target the operations as declared. A call that returns nil has
\* run exactly the triples whose where is true, in lexicographic order; a
\* call that returns an error has run a prefix of them.
C15_OperationsRunInLexicographicOrder ==
  (SpecCall /\ ForEachIsList) =>
    IF err = NoErr THEN returned.log = AllInOrder ELSE IsPrefix(returned.log, AllInOrder)

\* Two items, three targets and two operations: twelve calls, the second
\* operation after the first, the second target after the first target's
\* two, the second item after the first item's six.
C15_Witness ==
  /\ SpecCall
  /\ call.spec.forEach = "addons"
  /\ err = NoErr
  /\ Len(returned.log) = 12
  /\ returned.log[1] = [item |-> AddonApi, target |-> 1, op |-> OpAnnotate]
  /\ returned.log[2] = [item |-> AddonApi, target |-> 1, op |-> OpLabel]
  /\ returned.log[3] = [item |-> AddonApi, target |-> 2, op |-> OpAnnotate]
  /\ returned.log[7] = [item |-> AddonWorker, target |-> 1, op |-> OpAnnotate]
  /\ returned.log[12] = [item |-> AddonWorker, target |-> 3, op |-> OpLabel]

\* target.where evaluates to true (or is not set) with the loop variable
\* bound to the item and resource bound to the document.
WhereTrueFor(item, doc) ==
  \/ call.spec.target.where = ""
  \/ LET value == Render(Expr(call.spec.target.where),
                         Bind(Bind(before.inputs, LoopVar, item), "resource", doc))
     IN value.err = NoErr /\ value.value = Bool(TRUE)

\* The document after the operations of the spec, rendered with the loop
\* variable bound to the item and resource to the document, have been
\* applied for every item for which where is true, item by item.
RECURSIVE PatchedBy(_, _)
PatchedBy(doc, items) ==
  IF items = <<>> THEN doc
  ELSE IF WhereTrueFor(items[1], doc)
    THEN PatchedBy(OperationsLoop(doc, call.spec.operations,
                                  Bind(before.inputs, LoopVar, items[1])).doc,
                   Tail(items))
    ELSE PatchedBy(doc, Tail(items))

NameOf(doc) == Member(Member(doc, kMetadata), kName)

\* C16: in ApplySpec with forEach, where is evaluated for every pair of an
\* item and a candidate with the loop variable bound to the item and
\* resource to the candidate, and the operations, rendered under the same
\* bindings, are applied to a resource in an iteration iff where is true for
\* the pair. With where resource.metadata.name == addon.name and the
\* operation that merges {addon.key: addon.value} into the annotations,
\* every resource receives the entry of the item that carries its name and
\* no other, and a resource no item names stays as it was.
C16_WhereSelectsPerItemAndResource ==
  (SpecCall /\ call.spec.forEach # "" /\ ForEachIsList /\ err = NoErr) =>
    /\ \A t \in 1..Len(resources) :
         resources[t] = IF \E c \in 1..Len(Candidates) : Candidates[c] = t
                          THEN PatchedBy(before.resources[t], ForEachValue.value.a)
                          ELSE before.resources[t]
    /\ (call.spec.target.where = "matchName" /\ call.spec.operations = <<OpAnnotate>>) =>
         \A t \in 1..Len(resources) :
           LET own == {i \in 1..Len(ForEachValue.value.a) :
                         /\ \E c \in 1..Len(Candidates) : Candidates[c] = t
                         /\ NameOf(before.resources[t]) # Null
                         /\ Member(ForEachValue.value.a[i], kName) = NameOf(before.resources[t])}
           IN /\ own = {} => resources[t] = before.resources[t]
              /\ \A i \in own :
                   /\ Member(Annotations(resources[t]), Member(ForEachValue.value.a[i], kKey).s)
                        = Member(ForEachValue.value.a[i], kValue)
                   /\ Keys(Annotations(resources[t]))
                        = Keys(Annotations(before.resources[t]))
                            \cup {Member(ForEachValue.value.a[i], kKey).s}

\* The two Deployments have each received the annotation of the addon that
\* carries its name, and the nameless resource between them none.
C16_Witness ==
  /\ SpecCall
  /\ call.spec.forEach = "addons"
  /\ call.spec.target.where = "matchName"
  /\ call.spec.operations = <<OpAnnotate>>
  /\ err = NoErr
  /\ ForEachValue.value.a = <<AddonApi, AddonWorker>>
  /\ Member(Annotations(resources[1]), kTeam) = Str(<<"p">>)
  /\ Member(Annotations(resources[3]), kTeam) = Str(<<"o">>)
  /\ ~HasKey(Annotations(before.resources[1]), kTeam)
  /\ resources[2] = before.resources[2]

\* The error is no missing-data error.
HardFailure(e) == e # NoErr /\ ~ErrorsIs(e, ErrMissingData)

\* The logged calls made again, one after the other, each with the loop
\* variable bound to its item and resource to its target, up to the first
\* that fails: [err, resources].
RECURSIVE Replay(_, _)
Replay(docs, log) ==
  IF log = <<>> THEN [err |-> NoErr, resources |-> docs]
  ELSE LET entry == log[1]
           bindings == IF call.spec.forEach = "" THEN before.inputs
                       ELSE Bind(before.inputs, LoopVar, entry.item)
           r == ApplyOperation(docs[entry.target], entry.op,
                               Bind(bindings, "resource", docs[entry.target]))
       IN IF r.err # NoErr THEN [err |-> r.err, resources |-> [docs EXCEPT ![entry.target] = r.doc]]
          ELSE Replay([docs EXCEPT ![entry.target] = r.doc], Tail(log))

WhereErrors ==
  {"target.where must evaluate to a boolean", Wrap("where", ErrEvaluation)}

\* C17: ApplySpec stops at the first hard failure and returns it. A forEach
\* expression that is no list fails before anything has run. Otherwise the
\* calls made are a prefix of the calls in order; all of them but the last
\* succeeded; the error returned is that of the last call, or that of the
\* where evaluation that came after it; and the resources are as these
\* calls left them, so that no later operation, target or item has run.
C17_FirstHardFailureAborts ==
  /\ (SpecCall /\ call.spec.forEach # "" /\ ForEachValue.err = NoErr /\ ~IsArr(ForEachValue.value)) =>
       /\ err = "forEach expression must evaluate to an array"
       /\ returned.log = <<>>
       /\ resources = before.resources
  /\ (SpecCall /\ ForEachIsList /\ HardFailure(err)) =>
       /\ IsPrefix(returned.log, AllInOrder)
       /\ Replay(before.resources, SubSeq(returned.log, 1, Len(returned.log) - 1)).err = NoErr
       /\ resources = Replay(before.resources, returned.log).resources
       /\ \/ Replay(before.resources, returned.log).err = err
          \/ Replay(before.resources, returned.log).err = NoErr /\ err \in WhereErrors

\* The unknown operation, second of three, has ended the call: the first
\* resource holds the label the first operation added, nothing holds the
\* annotation of the third, and the other resources are as they were.
C17_Witness ==
  /\ SpecCall
  /\ call.spec.operations = <<OpLabel, OpUnknown, OpAnnotate>>
  /\ call.spec.forEach = "addons"
  /\ ForEachIsList
  /\ Len(ForEachValue.value.a) = 2
  /\ err = "unknown patch operation"
  /\ returned.log = <<[item |-> ForEachValue.value.a[1], target |-> 1, op |-> OpLabel],
                      [item |-> ForEachValue.value.a[1], target |-> 1, op |-> OpUnknown]>>
  /\ Len(AllInOrder) > 2
  /\ At(resources[1], splitPointer(PathAbsent)) = ValueText
  /\ Annotations(resources[1]) = Annotations(before.resources[1])
  /\ resources[2] = before.resources[2]
  /\ resources[3] = before.resources[3]


\* ---- C18
KeySet(v) == IF IsNull(v) THEN {} ELSE DOMAIN v.m

\* What the merge of two maps has to be, key by key.
RECURSIVE Merged(_, _)
Merged(base, override) ==
  Map([k \in KeySet(base) \cup KeySet(override) |->
         IF k \in KeySet(base) \cap KeySet(override)
              /\ IsMap(base.m[k]) /\ IsMap(override.m[k])
           THEN Merged(base.m[k], override.m[k])
           ELSE IF k \in KeySet(override) THEN override.m[k] ELSE base.m[k]])

PairwiseDisjoint(a, b, c) ==
  /\ KeySet(a) \cap KeySet(b) = {}
  /\ KeySet(a) \cap KeySet(c) = {}
  /\ KeySet(b) \cap KeySet(c) = {}

\* C18: deepMerge(base, override) holds, for a key of both whose two values
\* are mappings, their merge; for any other key of override, override's
\* value as it is (a sequence or scalar replaces, it is never concatenated);
\* for a key of base alone, base's value. At a conflict that is not between
\* two mappings the right-hand value wins, and for three maps with pairwise
\* disjoint key sets merging left-first and right-first give the same map.
C18_DeepMergeRecursiveForMappings ==
  /\ call.kind = "merge" =>
       /\ returned.result = Merged(call.base, call.override)
       /\ \A k \in KeySet(call.override) :
            ~(k \in KeySet(call.base) /\ IsMap(call.base.m[k]) /\ IsMap(call.override.m[k]))
              => returned.result.m[k] = call.override.m[k]
       /\ \A k \in KeySet(call.base) \ KeySet(call.override) :
            returned.result.m[k] = call.base.m[k]
  /\ (call.kind = "mergeOfThree" /\ PairwiseDisjoint(call.a, call.b, call.c)) =>
       returned.left = returned.right

C18_Witness ==
  /\ call.kind = "merge"
  /\ call.base = MergePlain
  /\ call.override = MergeNestedOver
  /\ returned.result.m[<<"a">>] =
       Map(<<"x">> :> Str(<<"2">>) @@ <<"y">> :> Arr(<<Str(<<"7">>), Str(<<"8">>)>>)
           @@ <<"z">> :> Map(<<"q">> :> Str(<<"1">>)))
  /\ returned.result.m[<<"b">>] = Str(<<"3">>)


\* ---- C19
DeepMergeCall == call.kind \in {"mergeInHeap", "mergeWrite"}

InputsOfMergeIntact ==
  /\ Read(heap, held.resource) = call.base
  /\ Read(heap, held.value) = call.override

\* C19: the map deepMerge returns shares no map and no slice with base or
\* with override, whatever they are (nil and empty included), the call
\* leaves both as they were, and a later write into the result changes
\* neither.
C19_DeepMergeNeverAliases ==
  /\ call.kind = "mergeInHeap" =>
       Reach(heap, returned.cell)
         \cap (Reach(heap, held.resource) \cup Reach(heap, held.value)) = {}
  /\ DeepMergeCall => InputsOfMergeIntact


\* ---- C20
ContextCall == call.kind \in {"componentContext", "addonContext"}

\* What a source supplies: nothing when it is not set or is null.
Supplied(raw) == IF raw = NoRaw \/ raw = Null THEN EmptyMap ELSE raw

DeclaredOfCall ==
  IF call.kind = "componentContext" THEN Supplied(call.input.Component.Parameters)
  ELSE Supplied(call.input.Instance.Config)

OverrideOfCall ==
  IF call.kind = "componentContext"
    THEN (IF call.input.EnvSettings = Null THEN EmptyMap
          ELSE Supplied(call.input.EnvSettings.Overrides))
    ELSE (IF HasInstanceOverride(call.input)
            THEN Supplied(call.input.EnvSettings.AddonOverrides.of[call.input.Addon.Name][call.input.Instance.InstanceID])
            ELSE EmptyMap)

SchemasOfCall ==
  {Supplied(sch) : sch \in (IF call.kind = "componentContext"
                              THEN {call.input.ComponentTypeDefinition.Parameters,
                                    call.input.ComponentTypeDefinition.EnvOverrides}
                              ELSE {call.input.Addon.Parameters, call.input.Addon.EnvOverrides})}

\* The paths to the entries of a tree: its values that are not mappings, and
\* its empty mappings.
RECURSIVE Leaves(_)
Leaves(v) ==
  IF IsMap(v) /\ DOMAIN v.m # {}
    THEN UNION {{<<k>> \o rest : rest \in Leaves(v.m[k])} : k \in DOMAIN v.m}
    ELSE {<<>>}

RECURSIVE HasPath(_, _)
HasPath(v, path) ==
  \/ path = <<>>
  \/ /\ HasKey(v, path[1])
     /\ HasPath(v.m[path[1]], Tail(path))

RECURSIVE EntryAt(_, _)
EntryAt(v, path) == IF path = <<>> THEN v ELSE EntryAt(v.m[path[1]], Tail(path))

\* The schema declares a default for the field at the path.
RECURSIVE HasDefaultAt(_, _)
HasDefaultAt(sch, path) ==
  /\ path # <<>>
  /\ HasKey(sch, path[1])
  /\ IF Len(path) = 1 THEN HasKey(sch.m[path[1]], cDefault)
     ELSE /\ HasKey(sch.m[path[1]], cProperties)
          /\ HasDefaultAt(sch.m[path[1]].m[cProperties], Tail(path))

RECURSIVE DefaultAt(_, _)
DefaultAt(sch, path) ==
  IF Len(path) = 1 THEN sch.m[path[1]].m[cDefault]
  ELSE DefaultAt(sch.m[path[1]].m[cProperties], Tail(path))

\* The override says something else at the path or above it.
Overridden(override, path) ==
  \/ HasPath(override, path)
  \/ \E n \in 1..(Len(path) - 1) :
       /\ HasPath(override, SubSeq(path, 1, n))
       /\ ~IsMap(EntryAt(override, SubSeq(path, 1, n)))

FollowsPrecedence(parameters, override, declared, schemas) ==
  /\ \A path \in Leaves(parameters) \ {<<>>} :
       IF HasPath(override, path) THEN EntryAt(parameters, path) = EntryAt(override, path)
       ELSE IF HasPath(declared, path) THEN EntryAt(parameters, path) = EntryAt(declared, path)
       ELSE \E sch \in schemas :
              /\ HasDefaultAt(sch, path)
              /\ EntryAt(parameters, path) = DefaultAt(sch, path)
  /\ \A path \in Leaves(override) \ {<<>>} :
       /\ HasPath(parameters, path)
       /\ EntryAt(parameters, path) = EntryAt(override, path)
  /\ \A path \in Leaves(declared) \ {<<>>} :
       ~Overridden(override, path) =>
         /\ HasPath(parameters, path)
         /\ EntryAt(parameters, path) = EntryAt(declared, path)
  /\ \A sch \in schemas : \A k \in DOMAIN sch.m :
       (HasKey(sch.m[k], cDefault) /\ ~HasKey(override, k) /\ ~HasKey(declared, k)) =>
         /\ HasKey(parameters, k)
         /\ parameters.m[k] = sch.m[k].m[cDefault]

\* C20: in the context BuildComponentContext and BuildAddonContext return,
\* every entry of parameters has the value the environment override gives
\* it when the override supplies it, else the value the component or the
\* instance declares, else the default the schema declares; every value a
\* source supplies is there unless a higher source says otherwise, and a
\* default is there only where neither source supplies the field.
C20_ParametersFollowPrecedence ==
  (ContextCall /\ err = NoErr) =>
    /\ HasKey(returned.ctx, cParameters)
    /\ FollowsPrecedence(returned.ctx.m[cParameters], OverrideOfCall, DeclaredOfCall,
                         SchemasOfCall)

C20_Witness ==
  /\ call.kind = "componentContext"
  /\ err = NoErr
  /\ call.input.Component.Parameters = ParamsFull
  /\ call.input.EnvSettings # Null
  /\ call.input.EnvSettings.Overrides = OverrideNested
  /\ call.input.ComponentTypeDefinition.Parameters = SchemaParameters
  /\ call.input.ComponentTypeDefinition.EnvOverrides = SchemaEnvOverrides
  /\ returned.ctx.m[cParameters] =
       Map(cReplicas :> Str(<<"5">>) @@ cCpu :> Str(<<"3", "0", "0", "m">>) @@ cZone :> Str(<<"a">>)
           @@ cResources :> Map(cLimit :> Str(<<"1">>) @@ cRequest :> Str(<<"2">>)
                                @@ cBurst :> Str(<<"0">>)))


ValueRenderErrors == {Wrap("value", ErrMissingData), Wrap("value", ErrEvaluation)}
PathRenderErrors == {Wrap("path", ErrMissingData), Wrap("path", ErrEvaluation)}

ExecutedAsRemove == call.kind = "operation" /\ ToLower(call.operation.op) = opRemove

\* C22: an operation that is executed as a remove, however its name is
\* written, never has its value rendered, so it never fails with the error
\* of rendering the value; any other operation has its path and its value
\* rendered first, and when either fails the call returns that error and
\* the resource is as it was.
C22_RemoveNeverRendersValue ==
  /\ ExecutedAsRemove => err \notin ValueRenderErrors
  /\ (call.kind = "operation" /\ ~ExecutedAsRemove) =>
       /\ Render(call.operation.path, before.inputs).err # NoErr =>
            /\ err \in PathRenderErrors
            /\ resources = before.resources
       /\ (/\ Render(call.operation.path, before.inputs).err = NoErr
           /\ Render(call.operation.path, before.inputs).value.t = "str"
           /\ Render(call.operation.value, before.inputs).err # NoErr) =>
            /\ err \in ValueRenderErrors
            /\ resources = before.resources


\* ---- C23
RemoveAt(path) ==
  /\ call.kind = "operation"
  /\ call.operation.op = "remove"
  /\ call.operation.path = Str(path)

NotWorker(element) == ~IsWorker(element)
NotNamedA(element) == Member(element, kName) # Str(<<"A">>)

DocBefore == before.resources[call.i]
DocAfter == resources[call.i]

\* C23: a remove whose path ends in an array filter removes the elements
\* that match, all of them: what is left of the array is the elements that
\* do not match, in their order, and the call returns no error. Here the
\* filters are role == 'w' on the containers and name == 'A' on the env of
\* the first container.
C23_RemoveByFilterRemovesAllMatches ==
  /\ (RemoveAt(PathWorkers) /\ IsArr(Containers(DocBefore))) =>
       /\ err = NoErr
       /\ DocAfter = MapSet(DocBefore, kContainers,
                            Arr(SelectSeq(Containers(DocBefore).a, NotWorker)))
  /\ (/\ RemoveAt(PathEnvFilter)
      /\ IsArr(Containers(DocBefore))
      /\ Len(Containers(DocBefore).a) > 0
      /\ IsArr(Member(Containers(DocBefore).a[1], kEnv))) =>
       /\ err = NoErr
       /\ Containers(DocAfter).a[1] =
            MapSet(Containers(DocBefore).a[1], kEnv,
                   Arr(SelectSeq(EnvOf(Containers(DocBefore).a[1]), NotNamedA)))


\* ---- C24
\* C24: ApplyOperation changes the resource or fails, never both: when it
\* returns an error the resource is as it was before the call.
C24_FailedOperationLeavesResource ==
  (call.kind = "operation" /\ err # NoErr) => resources = before.resources


\* ---- C25
\* The position in the log at which the iteration of entry n began.
BlockStart(n) ==
  CHOOSE m \in 1..n :
    /\ \A j \in m..n : returned.log[j].item = returned.log[n].item
    /\ m = 1 \/ returned.log[m - 1].item # returned.log[n].item

\* The resources as they were when the iteration of entry n began.
AtIterationStart(n) ==
  Replay(before.resources, SubSeq(returned.log, 1, BlockStart(n) - 1)).resources

\* C25: with forEach, the target's kind, group, version and name are
\* matched in every iteration against the resources as they then are: every
\* operation run in an iteration is run on a resource that satisfied the
\* target when that iteration began.
C25_TargetFilterAppliedPerIteration ==
  (SpecCall /\ call.spec.forEach # "" /\ ForEachIsList) =>
    \A n \in 1..Len(returned.log) :
      Satisfies(AtIterationStart(n)[returned.log[n].target], call.spec.target)

\* ------------------------------------------------------------------ C26

\* The last call was a Reconcile of the EnvSettings in which reconcileRelease
\* rendered the resources and CreateOrUpdate returned no error.
ReleaseReconciled ==
  /\ call.kind = "reconcileEnvSettings"
  /\ returned.reconcileRelease.reached
  /\ returned.reconcileRelease.rendered # RenderFailed
  /\ returned.reconcileRelease.createErr = NoErr

\* C26: whenever reconcileRelease renders the resources without error and the
\* Release create-or-update returns without error (created, updated or
\* unchanged), the EnvSettings' Ready condition is True when reconcileRelease
\* returns; a Ready=False of an earlier failed reconcile does not survive.
C26_ReadyAfterSuccessfulRelease ==
  ReleaseReconciled => returned.reconcileRelease.Ready.Status = "True"

\* A reconcile that found the Release unchanged returned with the
\* RenderingFailed condition of an earlier reconcile still in place.
StaleConditionSurvives ==
  /\ ReleaseReconciled
  /\ returned.reconcileRelease.op = OperationResultNone
  /\ returned.reconcileRelease.Ready = [Status |-> "False", Reason |-> ReasonRenderingFailed]

\* ------------------------------------------------------------------ C27

\* The last call was a Reconcile that read an Endpoint with a deletion
\* timestamp, labels and its finalizer.
ReconciledDeletion ==
  /\ call.kind = "reconcileEndpoint"
  /\ call.old # Null
  /\ call.old.Labels /\ call.old.Deleting /\ call.old.Finalizer

FinalizerGone == objects.endpoint = Null \/ ~objects.endpoint.Finalizer

\* C27: when an Endpoint has a deletion timestamp, its finalizer is removed
\* only after all external resources have been deleted successfully: if
\* reading or deleting an external resource fails, the finalizer is still on
\* the Endpoint, and once the finalizer is gone no external resource is left.
C27_FinalizerRemovedAfterCleanup ==
  ReconciledDeletion =>
    /\ err \in {ErrState, ErrExternal} => ~FinalizerGone
    /\ FinalizerGone => ~objects.route

\* The Endpoint is gone and its HTTPRoute is still there.
OrphanedRoute == ReconciledDeletion /\ objects.endpoint = Null /\ objects.route

\* ------------------------------------------------------------------ C28

\* The last call was a Reconcile that read the Endpoint.
ReconciledEndpoint == call.kind = "reconcileEndpoint" /\ call.old # Null

EmittedEndpointReady == \E i \in 1..Len(returned.events) : returned.events[i] = "EndpointReady"

WasReady == call.old.Status.Ready.Status = "True"

IsReady == objects.endpoint # Null /\ objects.endpoint.Status.Ready.Status = "True"

\* C28: the EndpointReady event is emitted in a reconcile if and only if the
\* Ready condition stored on the Endpoint before the reconcile was not True
\* and it is True after it; a reconcile of an Endpoint that was already Ready
\* and whose address and conditions it leaves unchanged performs no status
\* update.
C28_EndpointReadyOnlyOnTransition ==
  ReconciledEndpoint =>
    /\ EmittedEndpointReady <=> (~WasReady /\ IsReady)
    /\ (WasReady /\ objects.endpoint = call.old) => ~returned.statusUpdated

\* An Endpoint that was Ready is reconciled again, nothing about it changes,
\* and the event is emitted and the status written once more.
RepeatedEndpointReady ==
  /\ ReconciledEndpoint /\ WasReady /\ objects.endpoint = call.old
  /\ EmittedEndpointReady /\ returned.statusUpdated

\* ------------------------------------------------------------------ C29

\* The resource has no kind or no name (as a text that is not empty).
LacksKindOrName(resource) ==
  \/ AsString(Lookup(resource, "kind")) = <<>>
  \/ AsString(Lookup(AsMap(Lookup(resource, "metadata")), "name")) = <<>>

\* Entries i and j of the rendered list are two distinct resources.
DistinctEntries(i, j) ==
  /\ i # j
  /\ \/ call.rendered[i] # call.rendered[j]
     \/ LacksKindOrName(call.rendered[i])
     \/ LacksKindOrName(call.rendered[j])

\* C29: for every list of rendered resources passed to
\* convertToReleaseResources, any two distinct entries of the list (differing
\* in apiVersion, kind, namespace or name, or lacking kind or name) receive
\* different IDs in the Release.
C29_ResourceIDsAreUnique ==
  call.kind = "convertToReleaseResources" =>
    \A i, j \in 1..Len(call.rendered) :
      DistinctEntries(i, j) => returned[i].ID # returned[j].ID

\* Two resources of one kind and name in two namespaces share an ID.
SharedResourceID ==
  /\ call.kind = "convertToReleaseResources"
  /\ call.rendered = <<SvcA, SvcAElsewhere>>
  /\ returned[1].ID = returned[2].ID

\* ------------------------------------------------------------------ C30

\* AddonOverrides[A][I] of the settings, for the addon and the instance of the
\* input: <<>> when there is no such entry.
InstanceEntry(input, settings) ==
  IF HasInstanceOverride([input EXCEPT !.EnvSettings = settings])
    THEN <<settings.AddonOverrides.of[input.Addon.Name][input.Instance.InstanceID]>>
    ELSE <<>>

BuiltTwice == call.kind = "addonContextTwice"

SameInstanceEntry ==
  InstanceEntry(call.input, call.input.EnvSettings) = InstanceEntry(call.input, call.elsewhere)

\* C30: the parameters of the context BuildAddonContext builds for addon A and
\* instance I depend, among all environment settings, only on
\* AddonOverrides[A][I]: two settings with the same entry [A][I], whatever
\* their component-level overrides and their overrides of other addons and
\* instances, give the same outcome and the same parameters, and without an
\* entry [A][I] the parameters are the instance config plus schema defaults.
C30_AddonOverridesIsolated ==
  BuiltTwice =>
    /\ SameInstanceEntry =>
         /\ returned.other.err = err
         /\ err = NoErr =>
              returned.other.ctx.m[cParameters] = returned.ctx.m[cParameters]
    /\ (err = NoErr /\ InstanceEntry(call.input, call.input.EnvSettings) = <<>>) =>
         FollowsPrecedence(returned.ctx.m[cParameters], EmptyMap,
                           Supplied(call.input.Instance.Config),
                           {Supplied(call.input.Addon.Parameters),
                            Supplied(call.input.Addon.EnvOverrides)})

\* The settings override another instance of the addon on one side, and the
\* component, another addon and another instance on the other, and the
\* parameters are the replicas of the instance config and the defaults on
\* both sides.
C30_Witness ==
  /\ BuiltTwice
  /\ err = NoErr
  /\ call.input.Instance.Config = ParamsReplicas
  /\ call.input.Addon.Parameters = SchemaParameters
  /\ call.input.Addon.EnvOverrides = SchemaEnvOverrides
  /\ call.input.EnvSettings =
       [AddonOverrides |-> [of |-> (<<"p", "v", "c">> :> (<<"i", "2">> :> OverrideReplicas))]]
  /\ call.elsewhere # Null
  /\ call.elsewhere.Overrides = OverrideKind
  /\ returned.other.err = NoErr
  /\ returned.other.ctx.m[cParameters] = returned.ctx.m[cParameters]
  /\ returned.ctx.m[cParameters].m[cReplicas] = ParamsReplicas.m[cReplicas]

====
